---------------------------- MODULE Spec2Model ----------------------------
(***************************************************************************)
(* Model of the multi-player "Rock, Paper, Scissors, Lizard, Spock"        *)
(* referee server src/hw3/spock_server.c.                                  *)
(*                                                                         *)
(* Two specifications share the variables of this module:                  *)
(*   Spec      the server: main's accept loop followed by handle_game,     *)
(*             one step per blocking call (accept, select) and one step    *)
(*             per iteration of the inner for loop that reaches recv;      *)
(*   PureSpec  a harness that draws arguments for the pure functions       *)
(*             (beats, determine_multiplayer_winners) and applies them.    *)
(* Arrays are functions over 0..k-1, as in the C source.  A C string is a  *)
(* sequence of one-character strings; NUL marks the terminating zero.      *)
(***************************************************************************)
EXTENDS Integers, Sequences, FiniteSets, TLC

VARIABLES
    numPlayers,       \* argv[2], validated by main
    client_fds,       \* main: int client_fds[MAX_PLAYERS]; a connection is
                      \* named by its rank in the order of acceptance, from 1
    connected_count,  \* main: number of accepted connections
    scores,           \* handle_game: int scores[MAX_PLAYERS]
    moves,            \* handle_game: Move moves[MAX_PLAYERS] of the round
    moves_received,   \* handle_game: int moves_received
    round_over,       \* handle_game: int round_over
    someone_quit,     \* handle_game: int someone_quit
    someone_reset,    \* handle_game: int someone_reset
    read_fds,         \* player indices whose fd is set in read_fds after select
    i,                \* index of the inner for loop (line 228)
    n,                \* return value of the last recv
    buffer,           \* char buffer[BUF_SIZE] after the last recv
    readable,         \* player indices whose socket holds unread input
    pc,               \* position of the server process
    sent,             \* what the step passed to send() for every player
    dead,             \* player indices whose connection is reset: a send on
                      \* their socket raises SIGPIPE
    arg,              \* PureSpec: the arguments drawn for a pure function
    ret,              \* PureSpec: the value the function returned
    hw5,              \* the two-player server src/hw5/Wu/spock_server.c: a
                      \* record of its locals, its position and its peer
    clients,          \* the processes of src/hw3/spock_client.c connected to
                      \* the hw3 server: where each one is, and the number of
                      \* commands their users have typed
    hw5c,             \* one process of src/hw5/Wu/spock_client.c: its
                      \* prompt_needed, its socket, and the log of what it
                      \* sent and what it was told
    hw3c,             \* one process of src/hw3/spock_client.c seen from its
                      \* terminal: prompt_needed, socket, and the log of
                      \* prompts, sends and server messages
    chat              \* the two peers of src/hw1: position, buffer and last
                      \* recv() of each, and the two directions of the socket

vars == <<numPlayers, client_fds, connected_count, scores, moves, moves_received,
          round_over, someone_quit, someone_reset, read_fds, i, n, buffer,
          readable, pc, sent, dead, arg, ret, hw5, clients, hw5c, hw3c,
          chat>>

serverVars == <<numPlayers, client_fds, connected_count, scores, moves, moves_received,
                round_over, someone_quit, someone_reset, read_fds, i, n,
                buffer, readable, pc, sent, dead>>

pureVars == <<arg, ret>>

\* the variables of the other programs of the repository
\* the single-process clients and the two-peer chat
soloVars == <<hw5c, hw3c, chat>>

otherVars == <<hw5, clients, soloVars>>

---------------------------------------------------------------------------
(* Program constants *)

MAX_PLAYERS == 5

MOVE_ROCK == 0
MOVE_PAPER == 1
MOVE_SCISSORS == 2
MOVE_LIZARD == 3
MOVE_SPOCK == 4
MOVE_INVALID == 5

(* Bounds of the model *)

\* sessions of 1..MaxN players are explored (MaxN <= MAX_PLAYERS)
MaxN == 2
\* a round is resolved only while every winner's score is below MaxScore
MaxScore == 1

ValidMoves == {MOVE_ROCK, MOVE_PAPER, MOVE_SCISSORS, MOVE_LIZARD, MOVE_SPOCK}
Move == ValidMoves \cup {MOVE_INVALID}

\* the two-player server is not running
Hw5Idle ==
    [pc |-> "idle", round |-> 0, scores |-> <<>>, m1 |-> MOVE_INVALID,
     buf |-> <<>>, sent |-> "", pending |-> <<>>, remote |-> "open"]

---------------------------------------------------------------------------
\* no hw3 client is running
ClientsIdle == [st |-> [k \in 0..(MAX_PLAYERS - 1) |-> "none"], typed |-> 0]

---------------------------------------------------------------------------
\* no hw5 client, no hw3 client terminal and no chat is running
Hw5cIdle == [pc |-> "idle", prompt_needed |-> 1, inbox |-> <<>>,
             log |-> <<>>, typed |-> 0, heard |-> 0, rst |-> FALSE]

Hw3cIdle == [pc |-> "idle", prompt_needed |-> 1, inbox |-> <<>>,
             log |-> <<>>, typed |-> 0, heard |-> 0, rst |-> FALSE]

ChatIdle == [s |-> "idle", c |-> "idle", c2s |-> <<>>, s2c |-> <<>>,
             sbuf |-> <<>>, cbuf |-> <<>>, sn |-> 0, cn |-> 0, lines |-> 0,
             srst |-> FALSE, crst |-> FALSE]

SoloIdle ==
    /\ hw5c = Hw5cIdle
    /\ hw3c = Hw3cIdle
    /\ chat = ChatIdle

---------------------------------------------------------------------------
(* C strings *)

NUL == "\\0"

Min2(a, b) == IF a < b THEN a ELSE b

\* s[k] of a NUL-terminated string held in a zeroed buffer (k is 0-based)
CharAt(s, k) == IF k < Len(s) THEN s[k + 1] ELSE NUL

\* strncmp comparing the whole strings, as strcmp does
strncmp_whole(s1, s2, cnt) == IF s1 = s2 THEN 0 ELSE 1

\* strncmp(s1, s2, cnt): 0 when the strings agree on their first cnt
\* characters (comparison stops after a NUL), non-zero (1) otherwise
strncmp(s1, s2, cnt) ==
    IF \A k \in 0..(Min2(cnt, Len(s1) + 1) - 1) : CharAt(s1, k) = CharAt(s2, k)
    THEN 0 ELSE 1

STR_QUIT == <<"Q", "U", "I", "T">>
STR_RESET == <<"R", "E", "S", "E", "T">>
STR_MOVE == <<"M", "O", "V", "E", ":">>

---------------------------------------------------------------------------
(* Pure functions of spock_server.c *)

\* char_to_move with Rock as the default case
char_to_move_default_rock(c) ==
    CASE c \in {"P", "p"} -> MOVE_PAPER
      [] c \in {"S", "s"} -> MOVE_SCISSORS
      [] c \in {"L", "l"} -> MOVE_LIZARD
      [] c \in {"K", "k"} -> MOVE_SPOCK
      [] OTHER -> MOVE_ROCK

char_to_move(c) ==
    CASE c \in {"R", "r"} -> MOVE_ROCK
      [] c \in {"P", "p"} -> MOVE_PAPER
      [] c \in {"S", "s"} -> MOVE_SCISSORS
      [] c \in {"L", "l"} -> MOVE_LIZARD
      [] c \in {"K", "k"} -> MOVE_SPOCK
      [] OTHER -> MOVE_INVALID

move_to_string(m) ==
    CASE m = MOVE_ROCK -> "Rock"
      [] m = MOVE_PAPER -> "Paper"
      [] m = MOVE_SCISSORS -> "Scissors"
      [] m = MOVE_LIZARD -> "Lizard"
      [] m = MOVE_SPOCK -> "Spock"
      [] OTHER -> "Invalid"

\* beats with Lizard's second victim mistaken (Rock for Paper)
beats_swapped(m1, m2) ==
    IF \/ (m1 = MOVE_PAPER /\ (m2 = MOVE_ROCK \/ m2 = MOVE_SPOCK))
       \/ (m1 = MOVE_SCISSORS /\ (m2 = MOVE_PAPER \/ m2 = MOVE_LIZARD))
       \/ (m1 = MOVE_SPOCK /\ (m2 = MOVE_SCISSORS \/ m2 = MOVE_ROCK))
       \/ (m1 = MOVE_ROCK /\ (m2 = MOVE_SCISSORS \/ m2 = MOVE_LIZARD))
       \/ (m1 = MOVE_LIZARD /\ (m2 = MOVE_SPOCK \/ m2 = MOVE_ROCK))
    THEN 1 ELSE 0

beats(m1, m2) ==
    IF \/ (m1 = MOVE_PAPER /\ (m2 = MOVE_ROCK \/ m2 = MOVE_SPOCK))
       \/ (m1 = MOVE_SCISSORS /\ (m2 = MOVE_PAPER \/ m2 = MOVE_LIZARD))
       \/ (m1 = MOVE_SPOCK /\ (m2 = MOVE_SCISSORS \/ m2 = MOVE_ROCK))
       \/ (m1 = MOVE_ROCK /\ (m2 = MOVE_SCISSORS \/ m2 = MOVE_LIZARD))
       \/ (m1 = MOVE_LIZARD /\ (m2 = MOVE_SPOCK \/ m2 = MOVE_PAPER))
    THEN 1 ELSE 0

\* InnerLoop leaving the loop at the first unset entry instead of skipping it
RECURSIVE InnerLoop_stops_at_unset(_, _, _, _, _)
InnerLoop_stops_at_unset(mv, np, idx, j, i_beats_any) ==
    IF j >= np THEN <<0, i_beats_any>>
    ELSE IF idx = j
         THEN InnerLoop_stops_at_unset(mv, np, idx, j + 1, i_beats_any)
    ELSE IF mv[j] = MOVE_INVALID
         THEN <<0, i_beats_any>>
    ELSE IF beats(mv[j], mv[idx]) = 1
         THEN <<1, i_beats_any>>
    ELSE IF beats(mv[idx], mv[j]) = 1
         THEN InnerLoop_stops_at_unset(mv, np, idx, j + 1, 1)
    ELSE InnerLoop_stops_at_unset(mv, np, idx, j + 1, i_beats_any)

\* InnerLoop with the arguments of the two beats tests exchanged
RECURSIVE InnerLoop_swapped(_, _, _, _, _)
InnerLoop_swapped(mv, np, idx, j, i_beats_any) ==
    IF j >= np THEN <<0, i_beats_any>>
    ELSE IF idx = j \/ mv[j] = MOVE_INVALID
         THEN InnerLoop_swapped(mv, np, idx, j + 1, i_beats_any)
    ELSE IF beats(mv[idx], mv[j]) = 1
         THEN <<1, i_beats_any>>
    ELSE IF beats(mv[j], mv[idx]) = 1
         THEN InnerLoop_swapped(mv, np, idx, j + 1, 1)
    ELSE InnerLoop_swapped(mv, np, idx, j + 1, i_beats_any)

\* InnerLoop setting i_beats_any whenever j's move does not beat idx's move
RECURSIVE InnerLoop_unbeaten_counts(_, _, _, _, _)
InnerLoop_unbeaten_counts(mv, np, idx, j, i_beats_any) ==
    IF j >= np THEN <<0, i_beats_any>>
    ELSE IF idx = j \/ mv[j] = MOVE_INVALID
         THEN InnerLoop_unbeaten_counts(mv, np, idx, j + 1, i_beats_any)
    ELSE IF beats(mv[j], mv[idx]) = 1
         THEN <<1, i_beats_any>>
    ELSE InnerLoop_unbeaten_counts(mv, np, idx, j + 1, 1)

\* The inner loop over j of determine_multiplayer_winners (lines 474-490) for
\* player idx, from index j on; the result is <<i_is_beaten, i_beats_any>>.
RECURSIVE InnerLoop(_, _, _, _, _)
InnerLoop(mv, np, idx, j, i_beats_any) ==
    IF j >= np THEN <<0, i_beats_any>>
    ELSE IF idx = j \/ mv[j] = MOVE_INVALID
         THEN InnerLoop(mv, np, idx, j + 1, i_beats_any)
    ELSE IF beats(mv[j], mv[idx]) = 1
         THEN <<1, i_beats_any>>                           \* break
    ELSE IF beats(mv[idx], mv[j]) = 1
         THEN InnerLoop(mv, np, idx, j + 1, 1)
    ELSE InnerLoop(mv, np, idx, j + 1, i_beats_any)

\* isDominant without the i_beats_any condition of line 492
isDominant_no_beats_any(mv, np, idx) ==
    IF mv[idx] = MOVE_INVALID THEN 0
    ELSE LET r == InnerLoop(mv, np, idx, 0, 0)
         IN  IF r[1] = 0 THEN 1 ELSE 0

\* isDominant without the i_is_beaten condition of line 492
isDominant_ignores_beaten(mv, np, idx) ==
    IF mv[idx] = MOVE_INVALID THEN 0
    ELSE LET r == InnerLoop(mv, np, idx, 0, 0)
         IN  IF r[2] = 1 THEN 1 ELSE 0

\* isDominant[idx] after the first loop (lines 467-496)
isDominant(mv, np, idx) ==
    IF mv[idx] = MOVE_INVALID THEN 0
    ELSE LET r == InnerLoop(mv, np, idx, 0, 0)
         IN  IF r[1] = 0 /\ r[2] = 1 THEN 1 ELSE 0

\* FillWinners returning after the first dominant index
RECURSIVE FillWinners_first_only(_, _, _, _)
FillWinners_first_only(mv, np, idx, winners) ==
    IF idx >= np THEN winners
    ELSE IF isDominant(mv, np, idx) = 1
         THEN Append(winners, idx)
         ELSE FillWinners_first_only(mv, np, idx + 1, winners)

\* The second loop (lines 499-506): winners[0..count-1] as a sequence
RECURSIVE FillWinners(_, _, _, _)
FillWinners(mv, np, idx, winners) ==
    IF idx >= np THEN winners
    ELSE IF isDominant(mv, np, idx) = 1
         THEN FillWinners(mv, np, idx + 1, Append(winners, idx))
         ELSE FillWinners(mv, np, idx + 1, winners)

\* winners[] (0-based indices); *pNumWinners is its length
determine_multiplayer_winners(mv, np) == FillWinners(mv, np, 0, <<>>)

---------------------------------------------------------------------------
(* PureSpec: arguments are drawn in Init, one action per function *)

NoArg == [fn |-> "none"]
NoRet == <<"none">>

BeatsArgs == {[fn |-> "beats", m1 |-> a, m2 |-> b] : a \in Move, b \in Move}

MoveVectors(S) == UNION {[0..(k - 1) -> S] : k \in 1..MAX_PLAYERS}

WinnersArgs ==
    {[fn |-> "winners", moves |-> mv, numPlayers |-> Cardinality(DOMAIN mv)] :
        mv \in MoveVectors(ValidMoves)}

\* move vectors with at least one entry still MOVE_INVALID
SparseWinnersArgs ==
    {[fn |-> "winners", moves |-> mv, numPlayers |-> Cardinality(DOMAIN mv)] :
        mv \in MoveVectors(Move) \ MoveVectors(ValidMoves)}

IdleServer ==
    /\ numPlayers = 1
    /\ client_fds = [k \in 0..(MAX_PLAYERS - 1) |-> -1]
    /\ connected_count = 0
    /\ scores = [p \in 0..0 |-> 0]
    /\ moves = [p \in 0..0 |-> MOVE_INVALID]
    /\ moves_received = 0
    /\ round_over = 0
    /\ someone_quit = 0
    /\ someone_reset = 0
    /\ read_fds = {}
    /\ i = 0
    /\ n = 0
    /\ buffer = <<>>
    /\ readable = {}
    /\ pc = "pure"
    /\ sent = [kind |-> "NONE", winners |-> <<>>, moves |-> <<>>, scores |-> <<>>,
               text |-> "", to |-> {}, failed |-> {}]
    /\ dead = {}

\* a round of a session whose scores are all zero
ResolveArgs ==
    {[fn |-> "resolve", moves |-> mv, numPlayers |-> Cardinality(DOMAIN mv),
      scores |-> [p \in DOMAIN mv |-> 0]] :
        mv \in MoveVectors(ValidMoves)}

PureInit ==
    /\ IdleServer
    /\ arg \in BeatsArgs \cup WinnersArgs \cup SparseWinnersArgs \cup ResolveArgs
    /\ ret = NoRet
    /\ hw5 = Hw5Idle
    /\ clients = ClientsIdle
    /\ SoloIdle

CallBeats ==
    /\ arg.fn = "beats"
    /\ ret = NoRet
    /\ ret' = <<"beats", beats(arg.m1, arg.m2), beats(arg.m2, arg.m1)>>
    /\ UNCHANGED <<arg, serverVars, otherVars>>

CallWinners ==
    /\ arg.fn = "winners"
    /\ ret = NoRet
    /\ ret' = <<"winners", determine_multiplayer_winners(arg.moves, arg.numPlayers)>>
    /\ UNCHANGED <<arg, serverVars, otherVars>>


---------------------------------------------------------------------------
(* The server: what the network hands to recv *)

\* one recv: its return value n and the bytes it stored in the zeroed buffer
Data(s) == [n |-> Len(s), buf |-> s]
RECV_EOF == [n |-> 0, buf |-> <<>>]        \* orderly close by the peer
RECV_ERR == [n |-> -1, buf |-> <<>>]       \* recv failed

Inputs ==
    {Data(STR_QUIT), Data(STR_RESET),
     Data(<<"Q", "U", "I", "T", "\n">>),
     Data(<<"R", "E", "S", "E", "T", "\n">>),
     Data(<<"M", "O", "V", "E", ":", "R">>),
     Data(<<"M", "O", "V", "E", ":", "p">>),
     Data(<<"M", "O", "V", "E", ":", "S">>),
     Data(<<"M", "O", "V", "E", ":", "X">>),
     Data(<<"M", "O", "V", "E", ":">>),
     Data(<<"M", "O", "V", "E", ":", "R", "S">>),
     Data(<<"H", "I">>),
     RECV_EOF, RECV_ERR}

Players == 0..(numPlayers - 1)

\* text is the message handed to send(), to the set of i whose client_fds[i]
\* it is sent on and failed those of them for which send returned -1 (the
\* return value is never looked at); for a RESULT the other fields hold the
\* items of its three parts
NoSend ==
    [kind |-> "NONE", winners |-> <<>>, moves |-> <<>>, scores |-> <<>>,
     text |-> "", to |-> {}, failed |-> {}]
SendReset ==
    [kind |-> "RESET", winners |-> <<>>, moves |-> <<>>, scores |-> <<>>,
     text |-> "RESET", to |-> Players, failed |-> {}]
SendQuit ==
    [kind |-> "QUIT", winners |-> <<>>, moves |-> <<>>, scores |-> <<>>,
     text |-> "QUIT", to |-> Players, failed |-> {}]

\* snprintf "%d" of a non-negative int
Digit(d) ==
    CASE d = 0 -> "0" [] d = 1 -> "1" [] d = 2 -> "2" [] d = 3 -> "3"
      [] d = 4 -> "4" [] d = 5 -> "5" [] d = 6 -> "6" [] d = 7 -> "7"
      [] d = 8 -> "8" [] d = 9 -> "9"

RECURSIVE FormatInt(_)
FormatInt(k) ==
    IF k < 10 THEN Digit(k) ELSE FormatInt(k \div 10) \o Digit(k % 10)

\* Join with the comma appended before every item, the first included
RECURSIVE Join_comma_before_each(_, _, _)
Join_comma_before_each(items, k, part) ==
    IF k > Len(items) THEN part
    ELSE Join_comma_before_each(items, k + 1, part \o "," \o items[k])

\* the loops of lines 341-348, 352-359 and 364-371: items[1..cnt] appended to
\* part, each but the first after a comma
RECURSIVE Join(_, _, _)
Join(items, k, part) ==
    IF k > Len(items) THEN part
    ELSE Join(items, k + 1, part \o (IF k = 1 THEN "" ELSE ",") \o items[k])

\* snprintf(result_msg, ..., "RESULT:%s:%s:%s", winners_part, moves_part,
\* scores_part) (lines 373-375)
FormatResult(winners_items, moves_items, scores_items) ==
    "RESULT:" \o Join([k \in 1..Len(winners_items) |-> FormatInt(winners_items[k])], 1, "")
      \o ":" \o Join(moves_items, 1, "")
      \o ":" \o Join([k \in 1..Len(scores_items) |-> FormatInt(scores_items[k])], 1, "")

\* ResultMsg listing winners[i] without the + 1 of line 369
ResultMsg_zero_based(winners, mv, sc, np) ==
    LET w == winners
        m == [k \in 1..np |-> move_to_string(mv[k - 1])]
        c == [k \in 1..np |-> sc[k - 1]]
    IN  [kind |-> "RESULT", winners |-> w, moves |-> m, scores |-> c,
         text |-> FormatResult(w, m, c),
         to |-> 0..(np - 1), failed |-> {}]

\* the three comma-joined fields of "RESULT:%s:%s:%s" (lines 339-375), each as
\* the sequence of its items
ResultMsg(winners, mv, sc, np) ==
    LET w == [k \in 1..Len(winners) |-> winners[k] + 1]
        m == [k \in 1..np |-> move_to_string(mv[k - 1])]
        c == [k \in 1..np |-> sc[k - 1]]
    IN  [kind |-> "RESULT", winners |-> w, moves |-> m, scores |-> c,
         text |-> FormatResult(w, m, c),
         to |-> 0..(np - 1), failed |-> {}]

\* NextReady scanning the fds from the top
NextReady_from_top(from, fds, np) ==
    IF \E k \in fds : k >= from
    THEN CHOOSE k \in fds : k >= from /\ \A l \in fds : l >= from => k >= l
    ELSE np

\* the next index >= from whose fd is set in fds; np when the for loop ends
NextReady(from, fds, np) ==
    IF \E k \in fds : k >= from
    THEN CHOOSE k \in fds : k >= from /\ \A l \in fds : l >= from => k <= l
    ELSE np

Init ==
    /\ numPlayers \in 1..MaxN
    /\ client_fds = [k \in 0..(MAX_PLAYERS - 1) |-> -1]
    /\ connected_count = 0
    /\ scores = [p \in 0..(numPlayers - 1) |-> 0]
    /\ moves = [p \in 0..(numPlayers - 1) |-> MOVE_INVALID]
    /\ moves_received = 0
    /\ round_over = 0
    /\ someone_quit = 0
    /\ someone_reset = 0
    /\ read_fds = {}
    /\ i = 0
    /\ n = 0
    /\ buffer = <<>>
    /\ readable = {}
    /\ pc = "accept"
    /\ sent = NoSend
    /\ dead = {}
    /\ arg = NoArg
    /\ ret = NoRet
    /\ hw5 = Hw5Idle
    /\ clients = ClientsIdle
    /\ SoloIdle

\* StartRound with moves[] and moves_received kept from the round before
StartRound_keeps_moves ==
    /\ UNCHANGED <<moves, moves_received>>
    /\ round_over' = 0
    /\ someone_quit' = 0
    /\ someone_reset' = 0
    /\ pc' = "select"

\* top of the while (1) loop of handle_game (lines 193-204); the condition of
\* the collecting loop (line 207) holds, so the server blocks in select
StartRound ==
    /\ moves' = [p \in Players |-> MOVE_INVALID]
    /\ moves_received' = 0
    /\ round_over' = 0
    /\ someone_quit' = 0
    /\ someone_reset' = 0
    /\ pc' = "select"

\* Accept entering handle_game after the first connection
Accept_starts_early ==
    /\ pc = "accept"
    /\ connected_count < numPlayers
    /\ client_fds' = [client_fds EXCEPT ![connected_count] = connected_count + 1]
    /\ connected_count' = connected_count + 1
    /\ StartRound
    /\ sent' = NoSend
    /\ UNCHANGED <<numPlayers, scores, read_fds, i, n, buffer, readable,
                   pureVars, otherVars, dead>>

\* main: one successful accept; the last one closes the listening socket and
\* enters handle_game
Accept ==
    /\ pc = "accept"
    /\ connected_count < numPlayers
    /\ client_fds' = [client_fds EXCEPT ![connected_count] = connected_count + 1]
    /\ connected_count' = connected_count + 1
    /\ IF connected_count' < numPlayers
       THEN /\ UNCHANGED <<moves, moves_received, round_over, someone_quit,
                           someone_reset, pc>>
       ELSE StartRound
    /\ sent' = NoSend
    /\ UNCHANGED <<numPlayers, scores, read_fds, i, n, buffer, readable,
                   pureVars, otherVars, dead>>

\* main: accept fails, the process returns 1
AcceptFail ==
    /\ pc = "accept"
    /\ connected_count < numPlayers
    /\ pc' = "exit1"
    /\ sent' = NoSend
    /\ UNCHANGED <<numPlayers, connected_count, scores, moves, moves_received,
                   round_over, someone_quit, someone_reset, read_fds, i, n,
                   buffer, readable, pureVars, otherVars, dead, client_fds>>

\* select returns: input has arrived on the sockets in arrived; read_fds holds
\* every socket with unread input and the for loop runs up to the first of them
Select ==
    /\ pc = "select"
    /\ \E arrived \in SUBSET (Players \ readable) :
          /\ readable' = readable \cup arrived
          /\ readable' # {}
          /\ read_fds' = readable'
          /\ i' = NextReady(0, read_fds', numPlayers)
    /\ pc' = "recv"
    /\ sent' = NoSend
    /\ UNCHANGED <<numPlayers, connected_count, scores, moves, moves_received,
                   round_over, someone_quit, someone_reset, n, buffer, pureVars, otherVars, dead, client_fds>>

\* select fails: handle_game returns at once (lines 221-225)
SelectFail ==
    /\ pc = "select"
    /\ pc' = "done"
    /\ sent' = NoSend
    /\ UNCHANGED <<numPlayers, connected_count, scores, moves, moves_received,
                   round_over, someone_quit, someone_reset, read_fds, i, n,
                   buffer, readable, pureVars, otherVars, dead, client_fds>>

\* Continue leaving the collecting loop as soon as one move is recorded
Continue_any_move(mr) ==
    LET j == NextReady(i + 1, read_fds, numPlayers)
    IN  /\ i' = j
        /\ pc' = IF j < numPlayers THEN "recv"
                 ELSE IF mr < 1 THEN "select"
                 ELSE "decide"

\* Continue going back to select whatever the number of moves received
Continue_waits_again(mr) ==
    LET j == NextReady(i + 1, read_fds, numPlayers)
    IN  /\ i' = j
        /\ pc' = IF j < numPlayers THEN "recv" ELSE "select"

\* end of an iteration that did not break: the for loop moves to the next set
\* fd; when there is none the while condition (line 207) is tested
Continue(mr) ==
    LET j == NextReady(i + 1, read_fds, numPlayers)
    IN  /\ i' = j
        /\ pc' = IF j < numPlayers THEN "recv"
                 ELSE IF mr < numPlayers THEN "select"
                 ELSE "decide"

\* the recv of iteration i (lines 236-237)
Recv(in) ==
    /\ pc = "recv"
    /\ in \in Inputs
    /\ n' = in.n
    /\ buffer' = in.buf
    /\ readable' = IF in.n > 0 THEN readable \ {i} ELSE readable

\* RecvDisconnect testing n < 0: a zero-length read goes on to the parser,
\* which finds an unknown command in the empty buffer
RecvDisconnect_error_only ==
    /\ \E in \in Inputs :
          /\ Recv(in)
          /\ in.n <= 0
          /\ IF in.n < 0
             THEN /\ someone_quit' = 1
                  /\ round_over' = 1
                  /\ pc' = "decide"
                  /\ i' = i
             ELSE /\ UNCHANGED <<someone_quit, round_over>>
                  /\ Continue(moves_received)
    /\ sent' = NoSend
    /\ UNCHANGED <<numPlayers, connected_count, scores, moves, moves_received,
                   someone_reset, read_fds, pureVars, otherVars, dead, client_fds>>

\* n <= 0: disconnect or error (lines 238-245)
RecvDisconnect ==
    /\ \E in \in Inputs :
          /\ Recv(in)
          /\ in.n <= 0
    /\ someone_quit' = 1
    /\ round_over' = 1
    /\ pc' = "decide"
    /\ sent' = NoSend
    /\ UNCHANGED <<numPlayers, connected_count, scores, moves, moves_received,
                   someone_reset, read_fds, i, pureVars, otherVars, dead, client_fds>>

\* "QUIT" (lines 249-255)
RecvQuit ==
    /\ \E in \in Inputs :
          /\ Recv(in)
          /\ ~(in.n <= 0)
          /\ strncmp(in.buf, STR_QUIT, 4) = 0
    /\ someone_quit' = 1
    /\ round_over' = 1
    /\ pc' = "decide"
    /\ sent' = NoSend
    /\ UNCHANGED <<numPlayers, connected_count, scores, moves, moves_received,
                   someone_reset, read_fds, i, pureVars, otherVars, dead, client_fds>>

\* RecvReset zeroing the score of the requesting player only
RecvReset_own_score_only ==
    /\ \E in \in Inputs :
          /\ Recv(in)
          /\ ~(in.n <= 0)
          /\ strncmp(in.buf, STR_QUIT, 4) # 0
          /\ strncmp(in.buf, STR_RESET, 5) = 0
    /\ scores' = [scores EXCEPT ![i] = 0]
    /\ sent' = SendReset
    /\ someone_reset' = 1
    /\ round_over' = 1
    /\ pc' = "decide"
    /\ UNCHANGED <<numPlayers, connected_count, moves, moves_received,
                   someone_quit, read_fds, i, pureVars, otherVars, dead, client_fds>>

\* RecvReset without round_over and its break: the pass goes on
RecvReset_goes_on ==
    /\ \E in \in Inputs :
          /\ Recv(in)
          /\ ~(in.n <= 0)
          /\ strncmp(in.buf, STR_QUIT, 4) # 0
          /\ strncmp(in.buf, STR_RESET, 5) = 0
    /\ scores' = [k \in Players |-> 0]
    /\ sent' = SendReset
    /\ someone_reset' = 1
    /\ LET j == NextReady(i + 1, read_fds, numPlayers)
       IN  /\ i' = j
           /\ pc' = IF j < numPlayers THEN "recv" ELSE "decide"
    /\ UNCHANGED <<numPlayers, connected_count, moves, moves_received,
                   someone_quit, round_over, read_fds, pureVars, otherVars,
                   dead, client_fds>>

\* "RESET" (lines 256-272): scores zeroed, RESET sent to every player
RecvReset ==
    /\ \E in \in Inputs :
          /\ Recv(in)
          /\ ~(in.n <= 0)
          /\ strncmp(in.buf, STR_QUIT, 4) # 0
          /\ strncmp(in.buf, STR_RESET, 5) = 0
    /\ scores' = [k \in Players |-> 0]
    /\ sent' = SendReset
    /\ someone_reset' = 1
    /\ round_over' = 1
    /\ pc' = "decide"
    /\ UNCHANGED <<numPlayers, connected_count, moves, moves_received,
                   someone_quit, read_fds, i, pureVars, otherVars, dead, client_fds>>

\* AcceptsMove without the test that the slot is still empty
AcceptsMove_overwrites(m, slot) == m # MOVE_INVALID

\* the test of line 277
AcceptsMove(m, slot) == m # MOVE_INVALID /\ slot = MOVE_INVALID

\* "MOVE:" (lines 273-284)
RecvMove ==
    /\ \E in \in Inputs :
          /\ Recv(in)
          /\ ~(in.n <= 0)
          /\ strncmp(in.buf, STR_QUIT, 4) # 0
          /\ strncmp(in.buf, STR_RESET, 5) # 0
          /\ strncmp(in.buf, STR_MOVE, 5) = 0
          /\ LET c == CharAt(in.buf, 5)
                 m == char_to_move(c)
             IN  IF AcceptsMove(m, moves[i])
                 THEN /\ moves' = [moves EXCEPT ![i] = m]
                      /\ moves_received' = moves_received + 1
                 ELSE UNCHANGED <<moves, moves_received>>
    /\ Continue(moves_received')
    /\ sent' = NoSend
    /\ UNCHANGED <<numPlayers, connected_count, scores, round_over,
                   someone_quit, someone_reset, read_fds, pureVars, otherVars, dead, client_fds>>

\* unknown command (lines 285-289)
RecvUnknown ==
    /\ \E in \in Inputs :
          /\ Recv(in)
          /\ ~(in.n <= 0)
          /\ strncmp(in.buf, STR_QUIT, 4) # 0
          /\ strncmp(in.buf, STR_RESET, 5) # 0
          /\ strncmp(in.buf, STR_MOVE, 5) # 0
    /\ Continue(moves_received)
    /\ sent' = NoSend
    /\ UNCHANGED <<numPlayers, connected_count, scores, moves, moves_received,
                   round_over, someone_quit, someone_reset, read_fds, pureVars, otherVars, dead, client_fds>>

\* someone_quit (lines 299-307, 386): QUIT sent to every player, game over
DecideQuit ==
    /\ pc = "decide"
    /\ someone_quit = 1
    /\ sent' = SendQuit
    /\ pc' = "done"
    /\ UNCHANGED <<numPlayers, connected_count, scores, moves, moves_received,
                   round_over, someone_quit, someone_reset, read_fds, i, n,
                   buffer, readable, pureVars, otherVars, dead, client_fds>>

\* someone_reset (lines 309-313): continue with a new round
DecideReset ==
    /\ pc = "decide"
    /\ someone_quit = 0
    /\ someone_reset = 1
    /\ StartRound
    /\ sent' = NoSend
    /\ UNCHANGED <<numPlayers, connected_count, scores, read_fds, i, n, buffer,
                   readable, pureVars, otherVars, dead, client_fds>>

\* CreditWinners taking winners[w] for a 1-based player number
CreditWinners_one_based(sc, winners) ==
    [p \in DOMAIN sc |->
        IF \E w \in 1..Len(winners) : winners[w] = p + 1 THEN sc[p] + 1 ELSE sc[p]]

\* scores[] after the loop of lines 329-333
CreditWinners(sc, winners) ==
    [p \in DOMAIN sc |->
        IF \E w \in 1..Len(winners) : winners[w] = p THEN sc[p] + 1 ELSE sc[p]]

\* Resolve tested before someone_quit
Resolve_before_quit_check ==
    /\ pc = "decide"
    /\ someone_reset = 0
    /\ moves_received = numPlayers
    /\ LET winners == determine_multiplayer_winners(moves, numPlayers)
       IN  /\ \A w \in 1..Len(winners) : scores[winners[w]] < MaxScore
           /\ scores' = CreditWinners(scores, winners)
           /\ sent' = ResultMsg(winners, moves, scores', numPlayers)
    /\ StartRound
    /\ UNCHANGED <<numPlayers, connected_count, read_fds, i, n, buffer,
                   readable, pureVars, otherVars, dead, client_fds>>

\* all moves received (lines 316-381): winners credited, RESULT sent to every
\* player, then a new round
Resolve ==
    /\ pc = "decide"
    /\ someone_quit = 0
    /\ someone_reset = 0
    /\ moves_received = numPlayers
    /\ LET winners == determine_multiplayer_winners(moves, numPlayers)
       IN  /\ \A w \in 1..Len(winners) : scores[winners[w]] < MaxScore
           /\ scores' = CreditWinners(scores, winners)
           /\ sent' = ResultMsg(winners, moves, scores', numPlayers)
    /\ StartRound
    /\ UNCHANGED <<numPlayers, connected_count, read_fds, i, n, buffer,
                   readable, pureVars, otherVars, dead, client_fds>>

\* the resolution of a round (lines 316-375) applied to the drawn moves and
\* scores: the scores[] after it and the RESULT built from them
CallResolve ==
    /\ arg.fn = "resolve"
    /\ ret = NoRet
    /\ LET winners == determine_multiplayer_winners(arg.moves, arg.numPlayers)
           sc == CreditWinners(arg.scores, winners)
       IN  ret' = <<"resolve", sc, ResultMsg(winners, arg.moves, sc, arg.numPlayers)>>
    /\ UNCHANGED <<arg, serverVars, otherVars>>

PureNext == CallBeats \/ CallWinners \/ CallResolve

PureSpec == PureInit /\ [][PureNext]_vars

Next ==
    \/ Accept
    \/ AcceptFail
    \/ Select
    \/ SelectFail
    \/ RecvDisconnect
    \/ RecvQuit
    \/ RecvReset
    \/ RecvMove
    \/ RecvUnknown
    \/ DecideQuit
    \/ DecideReset
    \/ Resolve

Spec == Init /\ [][Next]_vars

\* the server started as ./spock_server <port> 2
Init2 ==
    /\ numPlayers = 2
    /\ client_fds = [k \in 0..(MAX_PLAYERS - 1) |-> -1]
    /\ connected_count = 0
    /\ scores = [p \in 0..(numPlayers - 1) |-> 0]
    /\ moves = [p \in 0..(numPlayers - 1) |-> MOVE_INVALID]
    /\ moves_received = 0
    /\ round_over = 0
    /\ someone_quit = 0
    /\ someone_reset = 0
    /\ read_fds = {}
    /\ i = 0
    /\ n = 0
    /\ buffer = <<>>
    /\ readable = {}
    /\ pc = "accept"
    /\ sent = NoSend
    /\ dead = {}
    /\ arg = NoArg
    /\ ret = NoRet
    /\ hw5 = Hw5Idle
    /\ clients = ClientsIdle
    /\ SoloIdle

\* the steps the server takes without waiting for a participant: a recv on a
\* socket that select reported readable, and what follows the collecting loop
ServerStep ==
    \/ RecvDisconnect
    \/ RecvQuit
    \/ RecvReset
    \/ RecvMove
    \/ RecvUnknown
    \/ DecideQuit
    \/ DecideReset
    \/ Resolve

\* the single-threaded loop keeps running while it has such a step to take;
\* accept and select wait for the participants and are not forced
FairSpec == Init2 /\ [][Next]_vars /\ WF_vars(ServerStep)

\* the server started as ./spock_server <port> 3
Init3 ==
    /\ numPlayers = 3
    /\ client_fds = [k \in 0..(MAX_PLAYERS - 1) |-> -1]
    /\ connected_count = 0
    /\ scores = [p \in 0..(numPlayers - 1) |-> 0]
    /\ moves = [p \in 0..(numPlayers - 1) |-> MOVE_INVALID]
    /\ moves_received = 0
    /\ round_over = 0
    /\ someone_quit = 0
    /\ someone_reset = 0
    /\ read_fds = {}
    /\ i = 0
    /\ n = 0
    /\ buffer = <<>>
    /\ readable = {}
    /\ pc = "accept"
    /\ sent = NoSend
    /\ dead = {}
    /\ arg = NoArg
    /\ ret = NoRet
    /\ hw5 = Hw5Idle
    /\ clients = ClientsIdle
    /\ SoloIdle

Spec3 == Init3 /\ [][Next]_vars

---------------------------------------------------------------------------
(* MainSpec: the server from the start of main, with the argument check    *)
(* of lines 75-79 as a step.                                               *)

\* the values of atoi(argv[2]) explored: 0, the sessions of 1..MaxN players,
\* and MaxN values above MAX_PLAYERS
ArgValues == (0..MaxN) \cup ((MAX_PLAYERS + 1)..(MAX_PLAYERS + MaxN))

\* main before the argument check; the arrays have at most MAX_PLAYERS entries
InitMain ==
    /\ numPlayers \in ArgValues
    /\ client_fds = [k \in 0..(MAX_PLAYERS - 1) |-> -1]
    /\ connected_count = 0
    /\ scores = [p \in 0..(Min2(numPlayers, MAX_PLAYERS) - 1) |-> 0]
    /\ moves = [p \in 0..(Min2(numPlayers, MAX_PLAYERS) - 1) |-> MOVE_INVALID]
    /\ moves_received = 0
    /\ round_over = 0
    /\ someone_quit = 0
    /\ someone_reset = 0
    /\ read_fds = {}
    /\ i = 0
    /\ n = 0
    /\ buffer = <<>>
    /\ readable = {}
    /\ pc = "main"
    /\ sent = NoSend
    /\ dead = {}
    /\ arg = NoArg
    /\ ret = NoRet
    /\ hw5 = Hw5Idle
    /\ clients = ClientsIdle
    /\ SoloIdle

\* the test of line 75 without its upper limit
RejectsNumPlayers_no_upper_limit(np) == np < 1

\* the test of line 75
RejectsNumPlayers(np) == np < 1 \/ np > MAX_PLAYERS

\* lines 75-79: exit(1) when numPlayers is out of range, else on to the accept
\* loop
CheckArgs ==
    /\ pc = "main"
    /\ pc' = IF RejectsNumPlayers(numPlayers) THEN "exit1" ELSE "accept"
    /\ UNCHANGED <<numPlayers, client_fds, connected_count, scores, moves,
                   moves_received, round_over, someone_quit, someone_reset,
                   read_fds, i, n, buffer, readable, sent, dead, pureVars, otherVars>>

MainNext == CheckArgs \/ Next

MainSpec == InitMain /\ [][MainNext]_vars

---------------------------------------------------------------------------
(* PipeSpec: the server with sends that can fail.  Every send is called    *)
(* with flags 0 and main leaves SIGPIPE at its default disposition, so a   *)
(* send on a connection that is reset terminates the process; a send that  *)
(* returns -1 goes unnoticed, its return value is never looked at.         *)

\* the least index of a non-empty set of player indices
Lowest(S) == CHOOSE k \in S : \A l \in S : k <= l

\* the loop of send() calls of a broadcast of msg (lines 265-268, 302-305,
\* 377-380), after being the position reached when the loop is over.  With no
\* connection reset every send is made: those to F return -1, and the peers of
\* D, having closed, answer theirs with a reset.  Otherwise the send to the
\* lowest reset connection raises SIGPIPE and the process ends inside the loop.
Broadcast(msg, after) ==
    IF dead = {}
    THEN \E F \in SUBSET Players, D \in SUBSET Players :
            /\ sent' = [msg EXCEPT !.failed = F]
            /\ dead' = D
            /\ pc' = after
    ELSE \E F \in SUBSET (0..(Lowest(dead) - 1)) :
            /\ sent' = [msg EXCEPT !.to = 0..Lowest(dead), !.failed = F]
            /\ dead' = dead
            /\ pc' = "killed"

\* select (lines 209-225): a reset connection is reported readable every time
PipeSelect ==
    /\ pc = "select"
    /\ \E arrived \in SUBSET (Players \ readable) :
          /\ dead \subseteq readable \cup arrived
          /\ readable' = readable \cup arrived
          /\ readable' # {}
          /\ read_fds' = readable'
          /\ i' = NextReady(0, read_fds', numPlayers)
    /\ pc' = "recv"
    /\ sent' = NoSend
    /\ UNCHANGED <<numPlayers, connected_count, scores, moves, moves_received,
                   round_over, someone_quit, someone_reset, n, buffer, pureVars, otherVars,
                   dead, client_fds>>

\* n <= 0 (lines 238-245); a recv that failed may have reported the reset of
\* the connection
PipeRecvDisconnect ==
    /\ \E in \in Inputs :
          /\ Recv(in)
          /\ in.n <= 0
          /\ dead' \in (IF in.n < 0 THEN {dead, dead \cup {i}} ELSE {dead})
    /\ someone_quit' = 1
    /\ round_over' = 1
    /\ pc' = "decide"
    /\ sent' = NoSend
    /\ UNCHANGED <<numPlayers, connected_count, scores, moves, moves_received,
                   someone_reset, read_fds, i, pureVars, otherVars, client_fds>>

\* "RESET" (lines 256-272)
PipeRecvReset ==
    /\ \E in \in Inputs :
          /\ Recv(in)
          /\ ~(in.n <= 0)
          /\ strncmp(in.buf, STR_QUIT, 4) # 0
          /\ strncmp(in.buf, STR_RESET, 5) = 0
    /\ scores' = [k \in Players |-> 0]
    /\ Broadcast(SendReset, "decide")
    /\ IF dead = {}
       THEN someone_reset' = 1 /\ round_over' = 1
       ELSE UNCHANGED <<someone_reset, round_over>>
    /\ UNCHANGED <<numPlayers, connected_count, moves, moves_received,
                   someone_quit, read_fds, i, pureVars, otherVars, client_fds>>

\* someone_quit (lines 299-307, 386)
PipeDecideQuit ==
    /\ pc = "decide"
    /\ someone_quit = 1
    /\ Broadcast(SendQuit, "done")
    /\ UNCHANGED <<numPlayers, connected_count, scores, moves, moves_received,
                   round_over, someone_quit, someone_reset, read_fds, i, n,
                   buffer, readable, pureVars, otherVars, client_fds>>

\* all moves received (lines 316-381)
PipeResolve ==
    /\ pc = "decide"
    /\ someone_quit = 0
    /\ someone_reset = 0
    /\ moves_received = numPlayers
    /\ LET winners == determine_multiplayer_winners(moves, numPlayers)
       IN  /\ \A w \in 1..Len(winners) : scores[winners[w]] < MaxScore
           /\ scores' = CreditWinners(scores, winners)
           /\ Broadcast(ResultMsg(winners, moves, scores', numPlayers), "select")
    /\ IF dead = {}
       THEN StartRound
       ELSE UNCHANGED <<moves, moves_received, round_over, someone_quit,
                        someone_reset>>
    /\ UNCHANGED <<numPlayers, connected_count, read_fds, i, n, buffer,
                   readable, pureVars, otherVars, client_fds>>

PipeNext ==
    \/ Accept
    \/ AcceptFail
    \/ PipeSelect
    \/ SelectFail
    \/ PipeRecvDisconnect
    \/ RecvQuit
    \/ PipeRecvReset
    \/ RecvMove
    \/ RecvUnknown
    \/ PipeDecideQuit
    \/ DecideReset
    \/ PipeResolve

PipeSpec == Init /\ [][PipeNext]_vars

---------------------------------------------------------------------------
(* Hw5Spec: the two-player server src/hw5/Wu/spock_server.c from the top   *)
(* of its game loop (line 137), the one client having connected.  Player 1 *)
(* plays on the server's console, player 2 is the remote client.  One step *)
(* per blocking call (select, recv) and one for the send that opens an     *)
(* iteration; the state is the record hw5.                                 *)

\* int round is kept modulo RoundSpan
RoundSpan == 4

\* at most MaxPending messages of the client wait unread in the socket
MaxPending == 1

toupper(c) ==
    CASE c = "r" -> "R" [] c = "p" -> "P" [] c = "s" -> "S"
      [] c = "l" -> "L" [] c = "k" -> "K" [] c = "q" -> "Q"
      [] c = "t" -> "T" [] OTHER -> c

\* char_to_move of hw5 (lines 46-56)
char_to_move_hw5(c) ==
    LET u == toupper(c)
    IN  CASE u = "R" -> MOVE_ROCK
          [] u = "P" -> MOVE_PAPER
          [] u = "S" -> MOVE_SCISSORS
          [] u = "L" -> MOVE_LIZARD
          [] u = "K" -> MOVE_SPOCK
          [] OTHER -> MOVE_INVALID

\* move_to_char (lines 59-62)
move_to_char(m) ==
    IF m >= 0 /\ m < 5 THEN <<"R", "P", "S", "L", "K">>[m + 1] ELSE "X"

\* beats of hw5 with Spock beating Rock and Lizard
beats_hw5_spock_line(m1, m2) ==
    IF m1 = MOVE_ROCK /\ (m2 = MOVE_SCISSORS \/ m2 = MOVE_LIZARD) THEN 1
    ELSE IF m1 = MOVE_PAPER /\ (m2 = MOVE_ROCK \/ m2 = MOVE_SPOCK) THEN 1
    ELSE IF m1 = MOVE_SCISSORS /\ (m2 = MOVE_PAPER \/ m2 = MOVE_LIZARD) THEN 1
    ELSE IF m1 = MOVE_LIZARD /\ (m2 = MOVE_PAPER \/ m2 = MOVE_SPOCK) THEN 1
    ELSE IF m1 = MOVE_SPOCK /\ (m2 = MOVE_ROCK \/ m2 = MOVE_LIZARD) THEN 1
    ELSE 0

\* beats of hw5 (lines 65-72)
beats_hw5(m1, m2) ==
    IF m1 = MOVE_ROCK /\ (m2 = MOVE_SCISSORS \/ m2 = MOVE_LIZARD) THEN 1
    ELSE IF m1 = MOVE_PAPER /\ (m2 = MOVE_ROCK \/ m2 = MOVE_SPOCK) THEN 1
    ELSE IF m1 = MOVE_SCISSORS /\ (m2 = MOVE_PAPER \/ m2 = MOVE_LIZARD) THEN 1
    ELSE IF m1 = MOVE_LIZARD /\ (m2 = MOVE_PAPER \/ m2 = MOVE_SPOCK) THEN 1
    ELSE IF m1 = MOVE_SPOCK /\ (m2 = MOVE_ROCK \/ m2 = MOVE_SCISSORS) THEN 1
    ELSE 0

\* what player 1 types at the prompt (the first character of the line)
LocalChars == {"Q", "T", "R", "k", "x"}

\* what the client sends
RemoteMsgs ==
    {STR_QUIT, STR_RESET,
     <<"M", "O", "V", "E", ":", "S">>,
     <<"M", "O", "V", "E", ":", "p">>,
     <<"M", "O", "V", "E", ":", "X">>,
     <<"H", "I">>}

\* "INFO:Starting Round %d. Score P1:%d P2:%d\n\n" (lines 141-143)
StartingRound(r, sc) ==
    "INFO:Starting Round " \o FormatInt(r) \o ". Score P1:" \o FormatInt(sc[0])
        \o " P2:" \o FormatInt(sc[1]) \o "\n\n"

STR_CHOICE == "INFO:Player1 has made a choice. Your turn.\n"

\* "RESULT:%c:%c:%d:%d" (lines 218-223)
Result5(m1, m2, sc) ==
    "RESULT:" \o move_to_char(m1) \o ":" \o move_to_char(m2) \o ":"
        \o FormatInt(sc[0]) \o ":" \o FormatInt(sc[1])

\* round++ (line 235)
NextRound(r) == (r + 1) % RoundSpan

\* the states after send(client_fd, text, ..., 0) in state st, after being the
\* position the code goes to next. The send is made with flags 0 and SIGPIPE
\* has its default disposition: on a reset connection it ends the process. A
\* peer that has closed answers the send with a reset, sooner or later.
Send5(st, text, after) ==
    IF st.remote = "reset"
    THEN {[st EXCEPT !.sent = text, !.pc = "killed"]}
    ELSE {[st EXCEPT !.sent = text, !.pc = after, !.remote = r] :
             r \in IF st.remote = "closed" THEN {"closed", "reset"} ELSE {"open"}}

\* client_fd is readable: unread input, or the end of the stream
ClientReadable == hw5.pending # <<>> \/ hw5.remote # "open"

\* the hw3 server is not running
Hw3Idle ==
    /\ numPlayers = 1
    /\ client_fds = [k \in 0..(MAX_PLAYERS - 1) |-> -1]
    /\ connected_count = 0
    /\ scores = [p \in 0..0 |-> 0]
    /\ moves = [p \in 0..0 |-> MOVE_INVALID]
    /\ moves_received = 0
    /\ round_over = 0
    /\ someone_quit = 0
    /\ someone_reset = 0
    /\ read_fds = {}
    /\ i = 0
    /\ n = 0
    /\ buffer = <<>>
    /\ readable = {}
    /\ pc = "idle"
    /\ sent = NoSend
    /\ dead = {}
    /\ arg = NoArg
    /\ ret = NoRet

\* lines 132-134, the client accepted and the rules sent
Init5 ==
    /\ Hw3Idle
    /\ hw5 = [pc |-> "top", round |-> 1, scores |-> [p \in 0..1 |-> 0],
              m1 |-> MOVE_INVALID, buf |-> <<>>, sent |-> "",
              pending |-> <<>>, remote |-> "open"]
    /\ clients = ClientsIdle
    /\ SoloIdle

\* top of the game loop (lines 141-148): the round is announced to the client;
\* m1 is a local of the block of line 161, that of an earlier iteration is gone
Top5 ==
    /\ hw5.pc = "top"
    /\ hw5' \in Send5([hw5 EXCEPT !.m1 = MOVE_INVALID],
                       StartingRound(hw5.round, hw5.scores), "select")
    /\ UNCHANGED <<serverVars, pureVars, clients, soloVars>>

\* select fails (lines 155-158): break
SelectFail5 ==
    /\ hw5.pc = "select"
    /\ hw5' = [hw5 EXCEPT !.pc = "done"]
    /\ UNCHANGED <<serverVars, pureVars, clients, soloVars>>

\* select returns with stdin set (lines 161-185): c is the character typed.
\* Player 1 plays no further move once a score has reached MaxScore.
SelectLocal5 ==
    /\ hw5.pc = "select"
    /\ \E c \in LocalChars :
          /\ char_to_move_hw5(c) # MOVE_INVALID
                => \A p \in 0..1 : hw5.scores[p] < MaxScore
          /\ IF c = "Q"
             THEN hw5' \in Send5(hw5, "QUIT", "done")
             ELSE IF c = "T"
             THEN hw5' \in Send5([hw5 EXCEPT !.scores = [p \in 0..1 |-> 0]],
                                 "RESET", "top")
             ELSE IF char_to_move_hw5(c) = MOVE_INVALID
             THEN hw5' = [hw5 EXCEPT !.pc = "top"]
             ELSE hw5' \in Send5([hw5 EXCEPT !.m1 = char_to_move_hw5(c)],
                                 STR_CHOICE, "recv")
    /\ UNCHANGED <<serverVars, pureVars, clients, soloVars>>

\* SelectRemoteOnly5 going back to the top of the loop without round++
SelectRemoteOnly5_keeps_round ==
    /\ hw5.pc = "select"
    /\ ClientReadable
    /\ hw5' = [hw5 EXCEPT !.pc = "top"]
    /\ UNCHANGED <<serverVars, pureVars, clients, soloVars>>

\* select returns with client_fd set and stdin not set: the block of line 161
\* is skipped, the block of line 231 does nothing, then round++ (line 235)
SelectRemoteOnly5 ==
    /\ hw5.pc = "select"
    /\ ClientReadable
    /\ hw5' = [hw5 EXCEPT !.round = NextRound(hw5.round), !.pc = "top"]
    /\ UNCHANGED <<serverVars, pureVars, clients, soloVars>>

\* recv returns n <= 0 (lines 187-191): break
Recv5Disconnect ==
    /\ hw5.pc = "recv"
    /\ hw5.pending = <<>>
    /\ hw5.remote # "open"
    /\ hw5' = [hw5 EXCEPT !.buf = <<>>, !.pc = "done"]
    /\ UNCHANGED <<serverVars, pureVars, clients, soloVars>>

\* recv returns the first unread message of the client
Recv5(msg) ==
    /\ hw5.pc = "recv"
    /\ hw5.pending # <<>>
    /\ msg = Head(hw5.pending)

\* "QUIT" (lines 193-196): break
Recv5Quit ==
    /\ \E msg \in RemoteMsgs :
          /\ Recv5(msg)
          /\ strncmp(msg, STR_QUIT, 4) = 0
          /\ hw5' = [hw5 EXCEPT !.buf = msg, !.pending = Tail(hw5.pending),
                                !.pc = "done"]
    /\ UNCHANGED <<serverVars, pureVars, clients, soloVars>>

\* Recv5Reset going back to recv with the move of player 1 kept
Recv5Reset_keeps_move ==
    /\ \E msg \in RemoteMsgs :
          /\ Recv5(msg)
          /\ strncmp(msg, STR_QUIT, 4) # 0
          /\ strncmp(msg, STR_RESET, 5) = 0
          /\ hw5' = [hw5 EXCEPT !.buf = msg, !.pending = Tail(hw5.pending),
                                !.scores = [p \in 0..1 |-> 0], !.pc = "recv"]
    /\ UNCHANGED <<serverVars, pureVars, clients, soloVars>>

\* "RESET" (lines 197-201): continue
Recv5Reset ==
    /\ \E msg \in RemoteMsgs :
          /\ Recv5(msg)
          /\ strncmp(msg, STR_QUIT, 4) # 0
          /\ strncmp(msg, STR_RESET, 5) = 0
          /\ hw5' = [hw5 EXCEPT !.buf = msg, !.pending = Tail(hw5.pending),
                                !.scores = [p \in 0..1 |-> 0], !.pc = "top"]
    /\ UNCHANGED <<serverVars, pureVars, clients, soloVars>>

\* m2 of lines 202-205
Move2(msg) ==
    IF strncmp(msg, STR_MOVE, 5) = 0 THEN char_to_move_hw5(CharAt(msg, 5))
    ELSE MOVE_INVALID

\* invalid move of player 2 (lines 206-209): continue
Recv5Invalid ==
    /\ \E msg \in RemoteMsgs :
          /\ Recv5(msg)
          /\ strncmp(msg, STR_QUIT, 4) # 0
          /\ strncmp(msg, STR_RESET, 5) # 0
          /\ Move2(msg) = MOVE_INVALID
          /\ hw5' = [hw5 EXCEPT !.buf = msg, !.pending = Tail(hw5.pending),
                                !.pc = "top"]
    /\ UNCHANGED <<serverVars, pureVars, clients, soloVars>>

\* scores[] after lines 212-215
Credit5(sc, m1, m2) ==
    LET w1 == beats_hw5(m1, m2)
        w2 == beats_hw5(m2, m1)
    IN  IF w1 = 1 /\ w2 = 0 THEN [sc EXCEPT ![0] = sc[0] + 1]
        ELSE IF w2 = 1 /\ w1 = 0 THEN [sc EXCEPT ![1] = sc[1] + 1]
        ELSE sc

\* a valid move of player 2 (lines 211-235): the round is resolved, RESULT
\* sent, then round++
Recv5Move ==
    /\ \E msg \in RemoteMsgs :
          /\ Recv5(msg)
          /\ strncmp(msg, STR_QUIT, 4) # 0
          /\ strncmp(msg, STR_RESET, 5) # 0
          /\ Move2(msg) # MOVE_INVALID
          /\ LET sc == Credit5(hw5.scores, hw5.m1, Move2(msg))
             IN  hw5' \in Send5([hw5 EXCEPT !.buf = msg,
                                           !.pending = Tail(hw5.pending),
                                           !.scores = sc,
                                           !.round = NextRound(hw5.round)],
                                 Result5(hw5.m1, Move2(msg), sc), "top")
    /\ UNCHANGED <<serverVars, pureVars, clients, soloVars>>

\* the client sends a message
RemoteSend5 ==
    /\ hw5.pc \in {"top", "select", "recv"}
    /\ hw5.remote = "open"
    /\ Len(hw5.pending) < MaxPending
    /\ \E msg \in RemoteMsgs : hw5' = [hw5 EXCEPT !.pending = Append(hw5.pending, msg)]
    /\ UNCHANGED <<serverVars, pureVars, clients, soloVars>>

\* the client closes its connection
RemoteClose5 ==
    /\ hw5.pc \in {"top", "select", "recv"}
    /\ hw5.remote = "open"
    /\ hw5' = [hw5 EXCEPT !.remote = "closed"]
    /\ UNCHANGED <<serverVars, pureVars, clients, soloVars>>

\* the steps the server takes without waiting for player 1: the send at the
\* top of the loop, a select that returns because client_fd is readable, and a
\* recv that finds input or the end of the stream
ServerStep5 ==
    \/ Top5
    \/ SelectRemoteOnly5
    \/ Recv5Disconnect
    \/ Recv5Quit
    \/ Recv5Reset
    \/ Recv5Invalid
    \/ Recv5Move

Next5 ==
    \/ Top5
    \/ SelectFail5
    \/ SelectLocal5
    \/ SelectRemoteOnly5
    \/ Recv5Disconnect
    \/ Recv5Quit
    \/ Recv5Reset
    \/ Recv5Invalid
    \/ Recv5Move
    \/ RemoteSend5
    \/ RemoteClose5

Hw5Spec == Init5 /\ [][Next5]_vars

\* Score5Spec: the scoring of a round by the two-player server (lines
\* 211-215) applied to drawn moves and scores
Score5Args ==
    {[fn |-> "score5", m1 |-> a, m2 |-> b, scores |-> sc] :
        a \in Move, b \in Move, sc \in [0..1 -> 0..MaxScore]}

Score5Init ==
    /\ IdleServer
    /\ arg \in Score5Args
    /\ ret = NoRet
    /\ hw5 = Hw5Idle
    /\ clients = ClientsIdle
    /\ SoloIdle

\* w1, w2 and scores[] after lines 212-215
CallScore5 ==
    /\ arg.fn = "score5"
    /\ ret = NoRet
    /\ ret' = <<"score5", beats_hw5(arg.m1, arg.m2), beats_hw5(arg.m2, arg.m1),
                Credit5(arg.scores, arg.m1, arg.m2)>>
    /\ UNCHANGED <<arg, serverVars, otherVars>>

Score5Spec == Score5Init /\ [][CallScore5]_vars

\* a send at the top of the loop to a peer that has closed meets the reset
ResetArrives5 == Top5 /\ hw5.remote = "closed" /\ hw5'.remote = "reset"

\* the loop keeps running while it need not wait, and a peer that has closed
\* answers one of the sends made to it with a reset; neither player is forced
\* to type or send anything
FairHw5Spec ==
    Init5 /\ [][Next5]_vars /\ WF_vars(ServerStep5) /\ SF_vars(ResetArrives5)

---------------------------------------------------------------------------
(* ClientSpec: the hw3 server with every participant a process of          *)
(* src/hw3/spock_client.c.  clients.st[k] is where the client holding      *)
(* participant index k is: "loop" (connected or connecting, then in its    *)
(* while loop), "quit" (its user typed Q: QUIT sent, loop left, socket     *)
(* closed), "closed" (loop left and socket closed without a QUIT: end of   *)
(* its standard input, a failed select, the process ended), "left_quit"    *)
(* and "left_closed" (loop left on the server's QUIT, or on recv <= 0).    *)
(* A command a client has sent and the server has not read keeps the       *)
(* client's index in readable; what it says is drawn when it is read.      *)

\* the users type at most MaxTyped commands other than Q between them
MaxTyped == 2

\* what a client in its loop sends (lines 154-178): RESET, or MOVE: and the
\* character its user typed
ClientCommands ==
    {STR_RESET} \cup {STR_MOVE \o <<c>> : c \in {"R", "p", "S", "X"}}

\* the server process is over: its sockets are closed
ServerOver == pc \in {"done", "exit1", "killed"}

\* the client of index k is connected and in its loop
InLoop(k) == k < connected_count /\ clients.st[k] = "loop"

\* the clients that have left their loop
Gone == {k \in Players : clients.st[k] # "loop"}

\* the server started as ./spock_server <port> 2, and two clients
InitClients ==
    /\ numPlayers = 2
    /\ client_fds = [k \in 0..(MAX_PLAYERS - 1) |-> -1]
    /\ connected_count = 0
    /\ scores = [p \in 0..(numPlayers - 1) |-> 0]
    /\ moves = [p \in 0..(numPlayers - 1) |-> MOVE_INVALID]
    /\ moves_received = 0
    /\ round_over = 0
    /\ someone_quit = 0
    /\ someone_reset = 0
    /\ read_fds = {}
    /\ i = 0
    /\ n = 0
    /\ buffer = <<>>
    /\ readable = {}
    /\ pc = "accept"
    /\ sent = NoSend
    /\ dead = {}
    /\ arg = NoArg
    /\ ret = NoRet
    /\ hw5 = Hw5Idle
    /\ clients = [st |-> [k \in 0..(MAX_PLAYERS - 1) |->
                             IF k < numPlayers THEN "loop" ELSE "none"],
                  typed |-> 0]
    /\ SoloIdle

\* the client moves to state st and what it sent, or the end of its stream,
\* waits to be read by the server. Once the server is over the socket of the
\* client is readable and the block of line 88 runs, and leaves the loop,
\* before the block of line 130 reads what the user typed.
ClientWrites(k, st) ==
    /\ InLoop(k)
    /\ ~ServerOver
    /\ k \notin readable
    /\ readable' = readable \cup {k}
    /\ clients' = [clients EXCEPT !.st[k] = st,
                                  !.typed = IF st = "loop" THEN @ + 1 ELSE @]
    /\ UNCHANGED <<numPlayers, client_fds, connected_count, scores, moves,
                   moves_received, round_over, someone_quit, someone_reset,
                   read_fds, i, n, buffer, pc, sent, dead, pureVars, hw5,
                   soloVars>>

\* the user types T or a move (lines 154-178): the command is sent
ClientSend(k) ==
    /\ clients.typed < MaxTyped
    /\ ClientWrites(k, "loop")

\* the user types Q (lines 148-153, 182): QUIT is sent, the socket closed
ClientQuit(k) ==
    /\ clients.st[k] = "loop"
    /\ ClientWrites(k, "quit")

\* select or fgets fails (lines 81-85, 133-137, 182), or the process is
\* ended: the socket is closed
ClientDisconnect(k) ==
    /\ clients.st[k] = "loop"
    /\ ClientWrites(k, "closed")

\* the client leaves its loop for the state st
ClientLeaves(k, st) ==
    /\ InLoop(k)
    /\ clients' = [clients EXCEPT !.st[k] = st]
    /\ UNCHANGED <<serverVars, pureVars, hw5, soloVars>>

\* the client reads the QUIT of the server (lines 88-104, 182)
ClientRecvQuit(k) ==
    /\ ServerOver
    /\ sent.kind = "QUIT"
    /\ k \in sent.to \ sent.failed
    /\ ClientLeaves(k, "left_quit")

\* ClientRecvClose with the client going on after recv returned n <= 0
ClientRecvClose_goes_on(k) ==
    /\ ServerOver
    /\ InLoop(k)
    /\ UNCHANGED vars

\* recv returns n <= 0, the server closed the connection (lines 88-96, 182)
ClientRecvClose(k) ==
    /\ ServerOver
    /\ ClientLeaves(k, "left_closed")

\* select returns when a socket has unread input
CSelect == PipeSelect /\ readable' = readable

\* n <= 0 (lines 238-245): the client has closed
CRecvDisconnect ==
    /\ PipeRecvDisconnect
    /\ \/ clients.st[i] = "closed"
       \/ clients.st[i] = "quit" /\ i \in dead /\ n' < 0

CRecvQuit == RecvQuit /\ clients.st[i] = "quit" /\ buffer' = STR_QUIT

\* a send fails, and a connection is reset, only if its client has closed
ClosedOnly == sent'.failed \subseteq Gone /\ dead' \subseteq Gone

CRecvReset ==
    /\ PipeRecvReset
    /\ clients.st[i] = "loop"
    /\ buffer' = STR_RESET
    /\ ClosedOnly

\* no further move is played once a score has reached MaxScore
CRecvMove ==
    /\ RecvMove
    /\ clients.st[i] = "loop"
    /\ buffer' \in ClientCommands
    /\ \A p \in Players : scores[p] < MaxScore

\* after the last send of the process a reset is of no effect
CDecideQuit == PipeDecideQuit /\ ClosedOnly /\ dead' = dead

CResolve == PipeResolve /\ ClosedOnly

\* the steps of the server that do not wait: select with unread input, recv
\* on a socket select reported, the code after the collecting loop
ClientServerStep ==
    \/ CSelect
    \/ CRecvDisconnect
    \/ CRecvQuit
    \/ CRecvReset
    \/ CRecvMove
    \/ CDecideQuit
    \/ DecideReset
    \/ CResolve

\* the steps of the client of index k that do not wait for its user
ClientStep(k) == ClientRecvQuit(k) \/ ClientRecvClose(k)

ClientNext ==
    \/ Accept
    \/ AcceptFail
    \/ SelectFail
    \/ CSelect
    \/ CRecvDisconnect
    \/ CRecvQuit
    \/ CRecvReset
    \/ CRecvMove
    \/ CDecideQuit
    \/ DecideReset
    \/ CResolve
    \/ \E k \in 0..(MAX_PLAYERS - 1) : ClientSend(k)
    \/ \E k \in 0..(MAX_PLAYERS - 1) : ClientQuit(k)
    \/ \E k \in 0..(MAX_PLAYERS - 1) : ClientDisconnect(k)
    \/ \E k \in 0..(MAX_PLAYERS - 1) : ClientRecvQuit(k)
    \/ \E k \in 0..(MAX_PLAYERS - 1) : ClientRecvClose(k)

ClientSpec == InitClients /\ [][ClientNext]_vars

\* server and clients run when they need not wait; no user is forced to type
\* and no connection to be made
FairClientSpec ==
    /\ InitClients
    /\ [][ClientNext]_vars
    /\ WF_vars(ClientServerStep)
    /\ \A k \in 0..(MAX_PLAYERS - 1) : WF_vars(ClientStep(k))

---------------------------------------------------------------------------
(* Vocabulary of the properties *)

\* the message starts with the characters of lit
HasPrefix(buf, lit) ==
    Len(buf) >= Len(lit) /\ SubSeq(buf, 1, Len(lit)) = lit

MoveLetters == {"R", "P", "S", "L", "K", "r", "p", "s", "l", "k"}

AllZero(sc) == \A p \in DOMAIN sc : sc[p] = 0
AllUnset(mv) == \A p \in DOMAIN mv : mv[p] = MOVE_INVALID

\* a step that reads one command from player i; n' and buffer' are what it read
ReadStep == pc = "recv"
DisconnectRead == ReadStep /\ n' <= 0
QuitRead == ReadStep /\ n' > 0 /\ HasPrefix(buffer', STR_QUIT)
ResetRead == ReadStep /\ n' > 0 /\ HasPrefix(buffer', STR_RESET)
MoveRead == ReadStep /\ n' > 0 /\ HasPrefix(buffer', STR_MOVE)
ValidMoveRead == MoveRead /\ Len(buffer') >= 6 /\ buffer'[6] \in MoveLetters
UnrecognizedRead ==
    ReadStep /\ n' > 0 /\ ~HasPrefix(buffer', STR_QUIT)
             /\ ~HasPrefix(buffer', STR_RESET) /\ ~ValidMoveRead

\* participant idx is dominant in mv: no other participant's move beats
\* mv[idx], and mv[idx] beats the move of at least one other participant
Dominant(mv, idx) ==
    /\ \A j \in DOMAIN mv : j # idx => beats(mv[j], mv[idx]) = 0
    /\ \E j \in DOMAIN mv : j # idx /\ beats(mv[idx], mv[j]) = 1

---------------------------------------------------------------------------
(* C1: for every vector of 1..5 valid moves, determine_multiplayer_winners  *)
(* returns exactly the indices of the dominant participants, each once.     *)
C1_WinnersAreTheDominantSet ==
    ret[1] = "winners" =>
        LET w == ret[2]
            returned == {w[k] : k \in 1..Len(w)}
        IN  /\ returned = {idx \in DOMAIN arg.moves : Dominant(arg.moves, idx)}
            /\ Cardinality(returned) = Len(w)

\* five participants, two of them dominant
C1_Witness ==
    /\ ret[1] = "winners"
    /\ arg.numPlayers = MAX_PLAYERS
    /\ Len(ret[2]) = 2

(* C2: beats is a tournament on the five moves: no move beats itself, of    *)
(* two distinct moves exactly one beats the other, and every move beats     *)
(* exactly two moves and is beaten by exactly two.                          *)
C2_BeatsIsATournament ==
    (ret[1] = "beats" /\ arg.m1 \in ValidMoves /\ arg.m2 \in ValidMoves) =>
        /\ arg.m1 = arg.m2 => ret[2] = 0
        /\ arg.m1 # arg.m2 => ret[2] + ret[3] = 1
        /\ Cardinality({b \in ValidMoves : beats(arg.m1, b) = 1}) = 2
        /\ Cardinality({b \in ValidMoves : beats(b, arg.m1) = 1}) = 2

\* Lizard against Spock: Lizard wins
C2_Witness ==
    /\ ret = <<"beats", 1, 0>>
    /\ arg.m1 = MOVE_LIZARD
    /\ arg.m2 = MOVE_SPOCK

(* C3: when a QUIT is read, or a read returns zero bytes or an error, with  *)
(* any number of moves recorded, the session terminates: the step changes   *)
(* no score and sends nothing, the next step only sends QUIT and ends the   *)
(* session, and nothing happens afterwards; no RESULT is sent.              *)
C3_QuitEndsSessionWithoutResult ==
    [][ /\ (QuitRead \/ DisconnectRead) =>
              /\ someone_quit' = 1
              /\ pc' = "decide"
              /\ scores' = scores
              /\ sent' = NoSend
        /\ (pc = "decide" /\ someone_quit = 1) =>
              /\ pc' = "done"
              /\ sent' = SendQuit
              /\ scores' = scores
        /\ pc # "done"
      ]_vars

\* the session ended by a QUIT or disconnect read when every move of the
\* round had been recorded
C3_Witness ==
    /\ pc = "done"
    /\ someone_quit = 1
    /\ moves_received = numPlayers
    /\ sent = SendQuit

C5_FirstValidMoveIsKept ==
    [][ /\ (ValidMoveRead /\ moves[i] = MOVE_INVALID) =>
              /\ moves' = [moves EXCEPT ![i] = char_to_move(buffer'[6])]
              /\ moves_received' = moves_received + 1
        /\ (MoveRead /\ moves[i] # MOVE_INVALID) =>
              /\ moves' = moves
              /\ moves_received' = moves_received
              /\ scores' = scores
        /\ \A p \in Players :
              (moves[p] # MOVE_INVALID /\ pc # "decide") => moves'[p] = moves[p]
      ]_vars

\* player 1 has Paper recorded and its later MOVE:R was read and dropped
C5_Witness ==
    /\ numPlayers = 2
    /\ pc = "select"
    /\ read_fds = {0}
    /\ buffer = <<"M", "O", "V", "E", ":", "R">>
    /\ moves[0] = MOVE_PAPER
    /\ moves_received = 1

(* C6: the termination conditions are evaluated after each applied command *)
(* in the order Quit/disconnect, Reset, all moves collected: the step that  *)
(* records the last missing move of the round goes straight to the          *)
(* resolution, so the server never reads a command while every move of the  *)
(* round is recorded; at the decision QUIT comes first, then Reset, then    *)
(* the RESULT.                                                              *)
C6_ResolvesBeforeFurtherRead ==
    [][ /\ (ReadStep /\ moves_received < numPlayers
                     /\ moves_received' = numPlayers) => pc' = "decide"
        /\ ~(ReadStep /\ moves_received = numPlayers)
        /\ (pc = "decide" /\ someone_quit = 1) => sent' = SendQuit
        /\ (pc = "decide" /\ someone_quit = 0 /\ someone_reset = 1) =>
              sent' = NoSend /\ pc' = "select"
        /\ (pc = "decide" /\ someone_quit = 0 /\ someone_reset = 0) =>
              sent'.kind = "RESULT"
      ]_vars

(* C7 as stated: when the pass over the readable channels of a wake-up is   *)
(* over, every channel that was readable at the wake-up has been read.      *)
C7_EveryReadableChannelIsRead ==
    pc \in {"select", "decide", "done"} => \A k \in read_fds : k <= i

(* C7: in a wake-up the readable channels are read in ascending index       *)
(* order, one command each, up to and including the first channel whose     *)
(* read yields QUIT, RESET, zero bytes or an error; that read ends the      *)
(* pass and the readable channels above it are not read in this wake-up.    *)
(* Without such a read every readable channel is read exactly once.         *)
C7_AscendingUntilRoundOver ==
    [][ /\ (pc = "select" /\ pc' = "recv") =>
              /\ read_fds' # {}
              /\ i' \in read_fds'
              /\ \A k \in read_fds' : i' <= k
        /\ ReadStep =>
              /\ i \in read_fds
              /\ read_fds' = read_fds
              /\ IF QuitRead \/ DisconnectRead \/ ResetRead
                 THEN pc' = "decide" /\ i' = i
                 ELSE /\ i' > i
                      /\ \A k \in read_fds : ~(i < k /\ k < i')
                      /\ \/ pc' = "recv" /\ i' \in read_fds
                         \/ pc' # "recv" /\ i' = numPlayers
      ]_vars

\* a pass ended at player 1's read although player 2 was readable too
C7_Witness ==
    /\ pc = "decide"
    /\ round_over = 1
    /\ i = 0
    /\ read_fds = {0, 1}

C9_UnrecognizedChangesNothing ==
    [][ UnrecognizedRead =>
          /\ UNCHANGED <<scores, moves, moves_received, round_over,
                         someone_quit, someone_reset>>
          /\ sent' = NoSend
          /\ round_over' = 0
          /\ moves[i] = MOVE_INVALID => pc' \in {"recv", "select"}
          /\ pc' \in {"recv", "select"} \/ moves_received = numPlayers
      ]_vars

\* an unknown message was read after a move; the round still collects
C9_Witness ==
    /\ numPlayers = 2
    /\ pc = "select"
    /\ buffer = <<"H", "I">>
    /\ moves_received = 1

(* C10: every score is a non-negative integer; a step leaves the scores     *)
(* unchanged, or is a round resolution that adds exactly 1 to some scores,  *)
(* or is a Reset that sets every score to zero.                             *)
C10_ScoresMonotonicExceptReset ==
    /\ \A p \in Players : scores[p] \in Nat
    /\ [][ /\ \A p \in Players : scores'[p] \in Nat
           /\ \/ scores' = scores
              \/ /\ pc = "decide"
                 /\ sent'.kind = "RESULT"
                 /\ \A p \in Players : scores'[p] \in {scores[p], scores[p] + 1}
              \/ /\ ResetRead
                 /\ AllZero(scores')
           /\ ResetRead => AllZero(scores')
         ]_vars

\* a resolved round credited a participant
C10_Witness ==
    /\ sent.kind = "RESULT"
    /\ \E p \in Players : scores[p] = 1 /\ sent.scores[p + 1] = 1

\* a step that resolves the round and sends RESULT
ResolveStep == pc = "decide" /\ sent'.kind = "RESULT"

\* 1 when participant p is dominant in mv, else 0
Win(mv, p) == IF Dominant(mv, p) THEN 1 ELSE 0

MoveNames == {"Rock", "Paper", "Scissors", "Lizard", "Spock"}

\* the server is in the collecting loop: blocked in select or about to recv
Collecting == pc \in {"select", "recv"}

(* C12: a RESULT is sent only when each of the N participants has a valid   *)
(* move recorded, and its moves field lists the N names of these moves,     *)
(* never Invalid.  While some participant has no valid move recorded, a     *)
(* step that reads no QUIT, RESET or disconnect sends nothing and leaves    *)
(* the server collecting (or ends the process because select itself         *)
(* failed): the round is not resolved.                                      *)
C12_ResultOnlyWithAllMoves ==
    [][ /\ sent'.kind = "RESULT" =>
              /\ pc = "decide"
              /\ moves_received = numPlayers
              /\ \A p \in Players : moves[p] \in ValidMoves
              /\ Len(sent'.moves) = numPlayers
              /\ \A p \in Players :
                    /\ sent'.moves[p + 1] \in MoveNames
                    /\ sent'.moves[p + 1] = move_to_string(moves[p])
        /\ ( /\ Collecting
             /\ ~(QuitRead \/ DisconnectRead \/ ResetRead)
             /\ \E p \in Players : moves'[p] = MOVE_INVALID ) =>
              /\ sent' = NoSend
              /\ Collecting' \/ (pc = "select" /\ pc' = "done")
      ]_vars

\* a RESULT of a two-player round listing both moves
C12_Witness ==
    /\ numPlayers = 2
    /\ sent.kind = "RESULT"
    /\ sent.moves = <<"Rock", "Paper">>

AllSame(mv) == \A p \in DOMAIN mv, q \in DOMAIN mv : mv[p] = mv[q]

C15_TwoPlayersClassicalRules ==
    (/\ ret[1] = "winners"
     /\ arg.numPlayers = 2
     /\ \A k \in 0..1 : arg.moves[k] \in ValidMoves) =>
        LET w == ret[2]
            returned == {w[k] : k \in 1..Len(w)}
            mv == arg.moves
        IN  /\ \A idx \in 0..1 :
                  (returned = {idx}) <=> (beats(mv[idx], mv[1 - idx]) = 1)
            /\ (returned = {}) <=> (mv[0] = mv[1])
            /\ Len(w) <= 1

\* Paper against Spock: the first participant wins
C15_Witness ==
    /\ ret = <<"winners", <<0>>>>
    /\ arg.numPlayers = 2
    /\ arg.moves[0] = MOVE_PAPER
    /\ arg.moves[1] = MOVE_SPOCK

\* a round of a three-participant session, all scores zero, is about to be
\* resolved with the moves m0, m1, m2 of participants 1, 2, 3
FreshRoundOf(m0, m1, m2) ==
    /\ numPlayers = 3
    /\ pc = "decide"
    /\ someone_quit = 0
    /\ someone_reset = 0
    /\ moves_received = numPlayers
    /\ AllZero(scores)
    /\ moves[0] = m0
    /\ moves[1] = m1
    /\ moves[2] = m2

SetEntries(mv) == {k \in DOMAIN mv : mv[k] # MOVE_INVALID}

\* the r-th (from 0) smallest index of mv whose entry is set
NthSet(mv, r) ==
    CHOOSE k \in SetEntries(mv) : Cardinality({j \in SetEntries(mv) : j < k}) = r

\* mv with its unset entries removed, the others keeping their order
Compacted(mv) ==
    [r \in 0..(Cardinality(SetEntries(mv)) - 1) |-> mv[NthSet(mv, r)]]

(* C19: determine_multiplayer_winners never returns an index whose entry   *)
(* is MOVE_INVALID, and what it returns for a vector with unset entries is *)
(* the dominant set among the set entries alone: the indices, in the       *)
(* original vector, of the winners it returns for the vector with the      *)
(* unset entries removed.                                                  *)
C19_UnsetEntriesAreExcluded ==
    ret[1] = "winners" =>
        LET mv == arg.moves
            w == ret[2]
            returned == {w[k] : k \in 1..Len(w)}
            active == SetEntries(mv)
            cw == determine_multiplayer_winners(Compacted(mv), Cardinality(active))
        IN  /\ returned \subseteq active
            /\ returned =
                 {idx \in active :
                     /\ \A j \in active \ {idx} : beats(mv[j], mv[idx]) = 0
                     /\ \E j \in active \ {idx} : beats(mv[idx], mv[j]) = 1}
            /\ w = [t \in 1..Len(cw) |-> NthSet(mv, cw[t])]

\* Rock, unset, Scissors, Rock: the first and the fourth participant win
C19_Witness ==
    /\ ret = <<"winners", <<0, 3>>>>
    /\ arg.numPlayers = 4
    /\ arg.moves[0] = MOVE_ROCK
    /\ arg.moves[1] = MOVE_INVALID
    /\ arg.moves[2] = MOVE_SCISSORS
    /\ arg.moves[3] = MOVE_ROCK

\* buf is MOVE: followed by exactly one of the ten letters, a line
\* terminator aside
ExactMoveMessage(buf) ==
    /\ HasPrefix(buf, STR_MOVE)
    /\ Len(buf) >= 6
    /\ buf[6] \in MoveLetters
    /\ \/ Len(buf) = 6
       \/ Len(buf) = 7 /\ buf[7] = "\n"

(* C20: a read records a move only when the message is MOVE: followed by   *)
(* exactly one letter of R, P, S, L, K in either case; a message starting  *)
(* with MOVE: and continuing in any other way (no letter, an unknown       *)
(* letter, a valid letter followed by further characters) leaves every     *)
(* move slot and the count of moves as they were.                          *)
C20_OnlyExactMoveMessagesRecord ==
    [][ ReadStep =>
          /\ moves' # moves => (n' > 0 /\ ExactMoveMessage(buffer'))
          /\ (MoveRead /\ ~ExactMoveMessage(buffer')) =>
                UNCHANGED <<moves, moves_received>>
      ]_vars

(* C21: a message read whose first four characters are QUIT is treated as  *)
(* Quit (the session is marked to end, nothing else changes) and one whose *)
(* first five characters are RESET is treated as Reset (scores zeroed,     *)
(* RESET sent), whatever follows those characters; no read is treated as   *)
(* both, and a message starting with none of QUIT, RESET and MOVE: is      *)
(* treated as neither.                                                     *)
C21_QuitAndResetArePrefixes ==
    [][ (ReadStep /\ n' > 0) =>
          /\ HasPrefix(buffer', STR_QUIT) =>
                /\ someone_quit' = 1
                /\ someone_reset' = 0
                /\ pc' = "decide"
                /\ sent' = NoSend
                /\ UNCHANGED <<scores, moves, moves_received>>
          /\ HasPrefix(buffer', STR_RESET) =>
                /\ someone_reset' = 1
                /\ someone_quit' = 0
                /\ pc' = "decide"
                /\ sent' = SendReset
                /\ AllZero(scores')
          /\ ~(someone_quit' = 1 /\ someone_reset' = 1)
          /\ (/\ ~HasPrefix(buffer', STR_QUIT)
              /\ ~HasPrefix(buffer', STR_RESET)
              /\ ~HasPrefix(buffer', STR_MOVE)) =>
                /\ someone_quit' = 0
                /\ someone_reset' = 0
                /\ sent' = NoSend
                /\ UNCHANGED <<scores, moves, moves_received>>
      ]_vars

\* RESET followed by a newline was read and treated as Reset
C21_Witness ==
    /\ buffer = <<"R", "E", "S", "E", "T", "\n">>
    /\ someone_reset = 1
    /\ sent = SendReset
    /\ AllZero(scores)
    /\ pc = "decide"

\* a send of the step's broadcast was not delivered: it returned -1, or it
\* raised SIGPIPE
FailedDelivery == sent'.failed # {} \/ pc' = "killed"

(* C22: when a send of a RESULT or RESET broadcast fails, the outcome      *)
(* stands and the session goes on: after a RESULT every score is the score *)
(* before plus one for a winner, after a RESET every score is zero, the    *)
(* message has been passed to send() for every participant, and the server *)
(* is on its way to collect the next round.                                *)
C22_BroadcastFailureKeepsOutcome ==
    [][ /\ (pc = "decide" /\ sent'.kind = "RESULT" /\ FailedDelivery) =>
              /\ \A p \in Players : scores'[p] = scores[p] + Win(moves, p)
              /\ sent'.to = Players
              /\ pc' = "select"
              /\ AllUnset(moves')
        /\ (ReadStep /\ sent'.kind = "RESET" /\ FailedDelivery) =>
              /\ AllZero(scores')
              /\ sent'.to = Players
              /\ pc' = "decide"
              /\ someone_reset' = 1
              /\ someone_quit' = 0
      ]_vars

(* C23: when the session ends on a Quit or a disconnect, QUIT is passed to *)
(* send() for every participant, whether or not some of these sends fail,  *)
(* and that is the last thing the server does: it reads no command and     *)
(* sends nothing afterwards.                                               *)
C23_QuitBroadcastReachesEveryChannel ==
    [][ /\ (pc = "decide" /\ someone_quit = 1) =>
              /\ sent'.kind = "QUIT"
              /\ sent'.to = Players
              /\ pc' \in {"done", "killed"}
        /\ sent.kind = "QUIT" => FALSE
      ]_vars

\* the session has started: the server is in handle_game or has left it
SessionStarted == pc \in {"select", "recv", "decide", "done", "killed"}

(* C24: the session starts only when exactly numPlayers connections have   *)
(* been accepted, and no command is read and nothing is sent before;       *)
(* participant index k holds the (k+1)-th accepted connection, the indices *)
(* not yet filled hold none; once the session has started no connection is *)
(* accepted and no index is bound to another connection.                   *)
C24_SessionStartsWithAllConnections ==
    /\ [](/\ connected_count \in 0..numPlayers
          /\ SessionStarted => connected_count = numPlayers
          /\ ~SessionStarted =>
                /\ sent = NoSend
                /\ AllUnset(moves)
                /\ n = 0
                /\ buffer = <<>>
          /\ \A k \in 0..(MAX_PLAYERS - 1) :
                client_fds[k] = IF k < connected_count THEN k + 1 ELSE -1)
    /\ [][ /\ ReadStep => connected_count = numPlayers
           /\ SessionStarted => UNCHANGED <<client_fds, connected_count>>
           /\ connected_count' # connected_count =>
                 /\ pc = "accept"
                 /\ connected_count' = connected_count + 1
                 /\ \A k \in 0..(connected_count - 1) :
                       client_fds'[k] = client_fds[k]
         ]_vars

\* two participants: the second accepted connection is participant 2, and a
\* command of that participant has been read
C24_Witness ==
    /\ numPlayers = 2
    /\ client_fds[0] = 1
    /\ client_fds[1] = 2
    /\ pc = "select"
    /\ moves[1] # MOVE_INVALID
    /\ moves[0] = MOVE_INVALID

\* every participant's move of the round is recorded, no QUIT, RESET or
\* disconnect has been read in the round, and no winner's score is at MaxScore
RoundComplete ==
    /\ pc \in {"recv", "decide"}
    /\ moves_received = numPlayers
    /\ someone_quit = 0
    /\ someone_reset = 0
    /\ \A p \in Players : Dominant(moves, p) => scores[p] < MaxScore

\* a RESULT has just been sent to every participant and the next round is
\* collecting with empty move slots
ResultBroadcast ==
    /\ sent.kind = "RESULT"
    /\ sent.to = Players
    /\ pc = "select"
    /\ AllUnset(moves)
    /\ moves_received = 0

(* C25: once every participant's valid move of a round is recorded, the    *)
(* server eventually sends a RESULT to every participant and starts a new  *)
(* round with empty move slots, unless it reads a QUIT, a RESET or a       *)
(* disconnect in the rest of the pass.                                     *)
C25_CompleteRoundIsResolved ==
    RoundComplete ~> (ResultBroadcast \/ someone_quit = 1 \/ someone_reset = 1)

\* two participants, the round has been resolved and the next one collects
C25_Witness ==
    /\ numPlayers = 2
    /\ ResultBroadcast
    /\ \E p \in Players : scores[p] = 1

(* C26: in a session with a single participant every round in which the   *)
(* participant plays a move is resolved with no winner: the RESULT has an  *)
(* empty winners field and lists the score 0, and the score stays 0.       *)
C26_LoneParticipantNeverWins ==
    /\ [](numPlayers = 1 => scores[0] = 0)
    /\ [][ numPlayers = 1 =>
             /\ (ValidMoveRead /\ moves[0] = MOVE_INVALID) => pc' = "decide"
             /\ (pc = "decide" /\ someone_quit = 0 /\ someone_reset = 0) =>
                   sent'.kind = "RESULT"
             /\ sent'.kind = "RESULT" =>
                   /\ sent'.winners = <<>>
                   /\ sent'.scores = <<0>>
                   /\ sent'.text = "RESULT::" \o move_to_string(moves[0]) \o ":0"
                   /\ scores'[0] = 0
         ]_vars

\* the lone participant played Paper
C26_Witness ==
    /\ numPlayers = 1
    /\ sent.text = "RESULT::Paper:0"
    /\ scores[0] = 0
    /\ pc = "select"

(* C27 as stated: a server started for more than 5 participants is not    *)
(* refused: it goes on to accept connections and run rounds.               *)
C27_SessionsBeyondFiveRun ==
    numPlayers > MAX_PLAYERS => pc # "exit1"

(* C27: the session is limited to MAX_PLAYERS = 5 participants.  Started   *)
(* with numPlayers below 1 or above 5 the server exits with status 1       *)
(* before accepting a connection, reading or sending anything; started     *)
(* with 1..5 it goes on to accept connections, so every session that runs  *)
(* has 1..5 participants.                                                  *)
C27_SessionsAreLimitedToFive ==
    /\ [](/\ (SessionStarted \/ connected_count > 0) =>
                numPlayers \in 1..MAX_PLAYERS
          /\ numPlayers \notin 1..MAX_PLAYERS => pc \in {"main", "exit1"})
    /\ [][ pc = "main" =>
             /\ pc' = IF numPlayers \in 1..MAX_PLAYERS THEN "accept" ELSE "exit1"
             /\ connected_count' = 0
             /\ sent' = NoSend
         ]_vars

\* started for 6 participants, the server has exited with status 1
C27_Witness ==
    /\ numPlayers = MAX_PLAYERS + 1
    /\ pc = "exit1"
    /\ connected_count = 0


---------------------------------------------------------------------------
(* The two-player server *)

\* this step of the two-player server resolves a round: both moves are valid
\* and the RESULT is sent
ResultStep5 ==
    /\ hw5.pc = "recv"
    /\ hw5.m1 # MOVE_INVALID
    /\ Move2(hw5'.buf) # MOVE_INVALID
    /\ hw5'.sent = Result5(hw5.m1, Move2(hw5'.buf), hw5'.scores)

\* the remote player has sent QUIT and the server has not read it, or the
\* remote player has disconnected
RemoteQuit5 ==
    \/ hw5.pending # <<>> /\ strncmp(Head(hw5.pending), STR_QUIT, 4) = 0
    \/ hw5.remote # "open"

\* the session of the two-player server is over
SessionOver5 == hw5.pc \in {"done", "killed"}

\* C28: in the two-player server the round number changes only in a step that
\* resolves a round (both moves valid, RESULT sent); no reset, invalid input
\* or iteration without a RESULT changes it.
C28_RoundAdvancesOnlyOnResult ==
    [][hw5'.round # hw5.round => ResultStep5]_vars

\* C29: in the two-player server a QUIT sent by the remote player, or the
\* remote player's disconnection, leads to the end of the session, whatever
\* the local player does or does not type.
C29_RemoteQuitEndsSession == (hw5.pc # "idle" /\ RemoteQuit5) ~> SessionOver5

---------------------------------------------------------------------------
(* Server and clients *)

\* a participant has quit or disconnected
SomeoneLeft == \E k \in Players : clients.st[k] \in {"quit", "closed"}

\* every client has left its loop and closed its socket
AllClientsLeft == \A k \in Players : clients.st[k] # "loop"

\* C30: with hw3 clients as participants, once the session has started and
\* one participant has quit or disconnected, every client leaves its loop and
\* closes its connection: none waits for ever for a RESULT.
C30_EveryClientLeaves == (SessionStarted /\ SomeoneLeft) ~> AllClientsLeft

\* a round has been played, then one client has quit and the other has left
\* on the QUIT of the server
C30_Witness ==
    /\ pc = "done"
    /\ \E p \in Players : scores[p] > 0
    /\ \E a, b \in Players :
          /\ clients.st[a] = "quit"
          /\ clients.st[b] = "left_quit"

---------------------------------------------------------------------------
(* The winners of a round, again *)

\* C31: in a resolved round of 2..5 participants the winners all played the
\* same move and are never all the participants: the score of at least one
\* participant is left as it was.
C31_WinnersShareAMoveAndNeverAll ==
    (ret[1] = "resolve" /\ arg.numPlayers >= 2) =>
        LET w == ret[3].winners
            won == {w[k] - 1 : k \in 1..Len(w)}
        IN  /\ won \subseteq DOMAIN arg.moves
            /\ \A p \in won, q \in won : arg.moves[p] = arg.moves[q]
            /\ won # DOMAIN arg.moves
            /\ \E p \in DOMAIN arg.moves : ret[2][p] = arg.scores[p]
            /\ \A p \in won : ret[2][p] = arg.scores[p] + 1

\* five participants: the four who played Spock win over the one Rock
C31_Witness ==
    /\ ret[1] = "resolve"
    /\ arg.numPlayers = MAX_PLAYERS
    /\ ret[3].winners = <<1, 2, 3, 5>>
    /\ \A p \in {0, 1, 2, 4} : arg.moves[p] = MOVE_SPOCK

---------------------------------------------------------------------------
(* RESET and QUIT at the same wake-up *)

\* the sockets select reported that come after the one being read are still
\* unread after this step
LaterUnread == \A j \in read_fds : j > i => j \in readable'

---------------------------------------------------------------------------
(* The two-player server and the winner engine *)

\* C33: for every pair of moves the beats of the two-player server returns
\* what the beats of the multi-player server returns, and for every pair of
\* valid moves the two-player server scores the round as the multi-player
\* engine does with two participants: the score of player k grows by 1
\* exactly when the winners are k alone, and no score changes on equal moves.
C33_TwoPlayerScoringIsTheEngineForTwo ==
    ret[1] = "score5" =>
        /\ ret[2] = beats(arg.m1, arg.m2)
        /\ ret[3] = beats(arg.m2, arg.m1)
        /\ (arg.m1 \in ValidMoves /\ arg.m2 \in ValidMoves) =>
              LET mv == (0 :> arg.m1) @@ (1 :> arg.m2)
                  w == determine_multiplayer_winners(mv, 2)
                  won == {w[k] : k \in 1..Len(w)}
              IN  /\ \A k \in 0..1 :
                        ret[4][k] = arg.scores[k] + (IF won = {k} THEN 1 ELSE 0)
                  /\ ret[4] = CreditWinners(arg.scores, w)
                  /\ arg.m1 = arg.m2 => ret[4] = arg.scores

\* Lizard against Spock: the point goes to player 1
C33_Witness ==
    /\ ret[1] = "score5"
    /\ arg.m1 = MOVE_LIZARD
    /\ arg.m2 = MOVE_SPOCK
    /\ arg.scores = (0 :> 0) @@ (1 :> 1)
    /\ ret[4] = (0 :> 1) @@ (1 :> 1)

---------------------------------------------------------------------------
(* Reset in the two-player server *)

\* player 1 types T: this step sends RESET
LocalReset5 == hw5.pc = "select" /\ hw5'.sent = "RESET"

\* this step reads a RESET of player 2
RemoteReset5 ==
    /\ hw5.pc = "recv"
    /\ hw5.pending # <<>>
    /\ hw5'.pending = Tail(hw5.pending)
    /\ strncmp(Head(hw5.pending), STR_QUIT, 4) # 0
    /\ strncmp(Head(hw5.pending), STR_RESET, 5) = 0

----------------------------------------------------------------------------
(* C39 *)

\* the participants whose move slot is set
SlotsSet == {p \in Players : moves[p] # MOVE_INVALID}

InCollection == pc \in {"select", "recv", "decide"}

\* C39: in every state of the collection loop of the multi-player server,
\* moves_received is the number of participants whose move slot is set, every
\* slot is unset or holds one of the five valid moves, and moves_received
\* lies between 0 and numPlayers.
C39_MovesReceivedCountsTheSetSlots ==
    InCollection =>
        /\ moves_received = Cardinality(SlotsSet)
        /\ \A p \in Players : moves[p] \in ValidMoves \cup {MOVE_INVALID}
        /\ 0 <= moves_received
        /\ moves_received <= numPlayers

\* the loop has just read a MOVE with an invalid letter, in a round in which
\* one of the two participants has moved
C39_Witness ==
    /\ InCollection
    /\ numPlayers = 2
    /\ moves_received = 1
    /\ Cardinality(SlotsSet) = 1
    /\ buffer = <<"M", "O", "V", "E", ":", "X">>

----------------------------------------------------------------------------
(* The client of the two-player game: src/hw5/Wu/spock_client.c.  hw5c is
   one client process: prompt_needed, the messages of the server waiting in
   its socket, and the log of what it sent and what it read.  The server is
   the environment and may send anything. *)

\* the user types at most MaxTyped lines, the server sends at most MaxHeard
\* messages
MaxHeard == 2

\* first characters of the lines the user types
Keys5c == {"Q", "t", "R", "k", "x", NUL}

STR_RESULT == <<"R", "E", "S", "U", "L", "T", ":">>
STR_INFO == <<"I", "N", "F", "O", ":">>
STR_PROMPT == <<"P", "R", "O", "M", "P", "T">>

\* what recv can return to a client: a message of the server, the end of the
\* stream, or an error
ServerSays ==
    {Data(STR_QUIT), Data(STR_RESET),
     Data(STR_RESULT \o <<"R", ":", "P", ":", "0", ":", "1">>),
     Data(STR_INFO \o <<"g", "o">>),
     Data(STR_PROMPT),
     Data(<<"H", "I">>),
     RECV_EOF, RECV_ERR}

\* the server has closed the connection, or the connection has failed
PeerGone(st) == \E k \in 1..Len(st.inbox) : st.inbox[k].n <= 0

\* send(): a second send on a connection the peer has closed raises SIGPIPE
ClientSend5c(st, text) ==
    IF st.rst
    THEN [st EXCEPT !.pc = "killed"]
    ELSE [st EXCEPT !.log = Append(@, [ev |-> "send", msg |-> text]),
                    !.rst = PeerGone(st)]

\* the text of "MOVE:%c" as strlen measures it (line 83)
MoveMsg(c) == IF c = NUL THEN STR_MOVE ELSE STR_MOVE \o <<c>>

\* strchr("RrPpSsLlKk", cmd) (line 81): the terminating NUL is found too
IsMoveKey(cmd) ==
    cmd \in {"R", "r", "P", "p", "S", "s", "L", "l", "K", "k", NUL}

\* the keyboard block with a MOVE that leaves prompt_needed set
Keyboard5c_keeps_prompt(st, cmd) ==
    LET t == [st EXCEPT !.typed = @ + 1]
    IN  CASE cmd \in {"Q", "q"} ->
               LET u == ClientSend5c(t, STR_QUIT)
               IN  IF u.pc = "killed" THEN u ELSE [u EXCEPT !.pc = "done"]
          [] cmd \in {"T", "t"} -> ClientSend5c(t, STR_RESET)
          [] IsMoveKey(cmd) /\ cmd \notin {"Q", "q", "T", "t"} ->
               ClientSend5c(t, MoveMsg(toupper(cmd)))
          [] OTHER -> t

\* the keyboard block (lines 71-88) on a line whose first character is cmd
Keyboard5c(st, cmd) ==
    LET t == [st EXCEPT !.typed = @ + 1]
    IN  CASE cmd \in {"Q", "q"} ->
               LET u == ClientSend5c(t, STR_QUIT)
               IN  IF u.pc = "killed" THEN u ELSE [u EXCEPT !.pc = "done"]
          [] cmd \in {"T", "t"} -> ClientSend5c(t, STR_RESET)
          [] IsMoveKey(cmd) /\ cmd \notin {"Q", "q", "T", "t"} ->
               LET u == ClientSend5c(t, MoveMsg(toupper(cmd)))
               IN  IF u.pc = "killed" THEN u ELSE [u EXCEPT !.prompt_needed = 0]
          [] OTHER -> t

\* the socket block (lines 91-130) on the first message waiting
Socket5c(st) ==
    LET in == Head(st.inbox)
        t == [st EXCEPT !.inbox = Tail(@),
                        !.log = Append(@, [ev |-> "recv", msg |-> in.buf])]
    IN  CASE in.n <= 0 -> [t EXCEPT !.pc = "done"]
          [] in.n > 0 /\ strncmp(in.buf, STR_QUIT, 4) = 0 ->
               [t EXCEPT !.pc = "done"]
          [] in.n > 0 /\ strncmp(in.buf, STR_QUIT, 4) # 0
                      /\ (\/ strncmp(in.buf, STR_RESET, 5) = 0
                          \/ strncmp(in.buf, STR_RESULT, 7) = 0
                          \/ strncmp(in.buf, STR_INFO, 5) = 0
                          \/ strncmp(in.buf, STR_PROMPT, 6) = 0) ->
               [t EXCEPT !.prompt_needed = 1]
          [] OTHER -> t

\* main after connect_to_server (lines 42-51)
InitHw5c ==
    /\ Hw3Idle
    /\ arg = NoArg
    /\ ret = NoRet
    /\ hw5 = Hw5Idle
    /\ clients = ClientsIdle
    /\ hw5c = [Hw5cIdle EXCEPT !.pc = "loop"]
    /\ hw3c = Hw3cIdle
    /\ chat = ChatIdle

\* the server sends a message, closes, or the connection fails
ServerSends5c ==
    /\ hw5c.pc = "loop"
    /\ hw5c.heard < MaxHeard
    /\ Len(hw5c.inbox) < MaxHeard
    /\ ~PeerGone(hw5c)
    /\ \E in \in ServerSays :
          hw5c' = [hw5c EXCEPT !.inbox = Append(@, in), !.heard = @ + 1]
    /\ UNCHANGED <<serverVars, pureVars, hw5, clients, hw3c, chat>>

\* select fails (lines 66-69)
SelectFail5c ==
    /\ hw5c.pc = "loop"
    /\ hw5c' = [hw5c EXCEPT !.pc = "done"]
    /\ UNCHANGED <<serverVars, pureVars, hw5, clients, hw3c, chat>>

\* an iteration in which select reports the keyboard only
KeyboardOnly5c ==
    /\ hw5c.pc = "loop"
    /\ hw5c.prompt_needed # 0
    /\ hw5c.typed < MaxTyped
    /\ \E cmd \in Keys5c : hw5c' = Keyboard5c(hw5c, cmd)
    /\ UNCHANGED <<serverVars, pureVars, hw5, clients, hw3c, chat>>

\* the keyboard is at its end: getchar returns EOF for ever and the loop of
\* line 73 does not end
KeyboardEnds5c ==
    /\ hw5c.pc = "loop"
    /\ hw5c.prompt_needed # 0
    /\ hw5c' = [hw5c EXCEPT !.pc = "hung"]
    /\ UNCHANGED <<serverVars, pureVars, hw5, clients, hw3c, chat>>

\* an iteration in which select reports the socket only
SocketOnly5c ==
    /\ hw5c.pc = "loop"
    /\ hw5c.inbox # <<>>
    /\ hw5c' = Socket5c(hw5c)
    /\ UNCHANGED <<serverVars, pureVars, hw5, clients, hw3c, chat>>

\* an iteration in which select reports both: the keyboard block runs first
KeyboardAndSocket5c ==
    /\ hw5c.pc = "loop"
    /\ hw5c.prompt_needed # 0
    /\ hw5c.typed < MaxTyped
    /\ hw5c.inbox # <<>>
    /\ \E cmd \in Keys5c :
          LET u == Keyboard5c(hw5c, cmd)
          IN  hw5c' = IF u.pc = "loop" THEN Socket5c(u) ELSE u
    /\ UNCHANGED <<serverVars, pureVars, hw5, clients, hw3c, chat>>

NextHw5c ==
    \/ ServerSends5c
    \/ SelectFail5c
    \/ KeyboardOnly5c
    \/ KeyboardEnds5c
    \/ SocketOnly5c
    \/ KeyboardAndSocket5c

Hw5cSpec == InitHw5c /\ [][NextHw5c]_vars

----------------------------------------------------------------------------
(* C35 *)

IsSend(e) == e.ev = "send"
IsMoveSent(e) == e.ev = "send" /\ strncmp(e.msg, STR_MOVE, 5) = 0

\* a message of the server that asks for the next command
IsCue(e) ==
    /\ e.ev = "recv"
    /\ strncmp(e.msg, STR_QUIT, 4) # 0
    /\ \/ strncmp(e.msg, STR_RESET, 5) = 0
       \/ strncmp(e.msg, STR_RESULT, 7) = 0
       \/ strncmp(e.msg, STR_INFO, 5) = 0
       \/ strncmp(e.msg, STR_PROMPT, 6) = 0

\* in log, a cue of the server lies between a MOVE and any later send
OneMovePerCue(log) ==
    \A a \in 1..Len(log) : \A b \in (a + 1)..Len(log) :
        (IsMoveSent(log[a]) /\ IsSend(log[b]))
            => \E c \in (a + 1)..(b - 1) : IsCue(log[c])

\* C35: the hw5 client reads a line of the keyboard only in an iteration that
\* began with prompt_needed set, and once it has sent a MOVE it sends no
\* further MOVE, RESET or QUIT until it has read a RESULT, RESET, INFO or
\* PROMPT of the server.
C35_OneMovePerServerCue ==
    [][/\ hw5c'.typed # hw5c.typed => hw5c.prompt_needed # 0
       /\ OneMovePerCue(hw5c'.log)
       /\ (hw5c'.log # hw5c.log /\ IsMoveSent(hw5c'.log[Len(hw5c'.log)])
              /\ hw5c'.pc = "loop")
             => hw5c'.prompt_needed = 0]_vars

\* the client has sent a MOVE, read a cue and sent a second MOVE
C35_Witness ==
    /\ Len(hw5c.log) = 3
    /\ IsMoveSent(hw5c.log[1])
    /\ IsCue(hw5c.log[2])
    /\ IsMoveSent(hw5c.log[3])
    /\ hw5c.prompt_needed = 0

----------------------------------------------------------------------------
(* The terminal of one client of the multi-player game:
   src/hw3/spock_client.c.  hw3c is one client process: prompt_needed, the
   messages of the server waiting in its socket, and the log of the prompts
   it printed, of what it sent and of what it read. *)

\* first characters of the lines the user types; "" is the empty line
Keys3c == {"Q", "t", "M", "R", "x", ""}

\* what recv can return to the hw3 client
ServerSays3c ==
    {Data(STR_QUIT), Data(STR_RESET),
     Data(STR_RESULT \o <<"0", ":", "1">>),
     Data(STR_INFO \o <<"g", "o">>),
     RECV_EOF}

\* the socket block with every other message asking for a command as well
Socket3c_any_message_prompts(st) ==
    LET in == Head(st.inbox)
        t == [st EXCEPT !.inbox = Tail(@),
                        !.log = Append(@, [ev |-> "recv", msg |-> in.buf])]
    IN  CASE in.n <= 0 -> [t EXCEPT !.pc = "done"]
          [] in.n > 0 /\ strncmp(in.buf, STR_QUIT, 4) = 0 ->
               [t EXCEPT !.pc = "done"]
          [] OTHER -> [t EXCEPT !.prompt_needed = 1]

\* the socket block (lines 88-128) on the first message waiting
Socket3c(st) ==
    LET in == Head(st.inbox)
        t == [st EXCEPT !.inbox = Tail(@),
                        !.log = Append(@, [ev |-> "recv", msg |-> in.buf])]
    IN  CASE in.n <= 0 -> [t EXCEPT !.pc = "done"]
          [] in.n > 0 /\ strncmp(in.buf, STR_QUIT, 4) = 0 ->
               [t EXCEPT !.pc = "done"]
          [] in.n > 0 /\ strncmp(in.buf, STR_QUIT, 4) # 0
                      /\ (\/ strncmp(in.buf, STR_RESET, 5) = 0
                          \/ strncmp(in.buf, STR_RESULT, 7) = 0) ->
               [t EXCEPT !.prompt_needed = 1]
          [] OTHER -> t

\* the keyboard block (lines 131-178) on a line whose first character is cmd
Keyboard3c(st, cmd) ==
    LET t == [st EXCEPT !.typed = @ + 1]
    IN  CASE cmd = "" -> t
          [] cmd \in {"Q", "q"} ->
               LET u == ClientSend5c(t, STR_QUIT)
               IN  IF u.pc = "killed" THEN u ELSE [u EXCEPT !.pc = "done"]
          [] cmd \in {"T", "t"} ->
               LET u == ClientSend5c(t, STR_RESET)
               IN  IF u.pc = "killed" THEN u ELSE [u EXCEPT !.prompt_needed = 0]
          [] cmd \in {"M", "m"} -> t
          [] OTHER ->
               LET u == ClientSend5c(t, STR_MOVE \o <<cmd>>)
               IN  IF u.pc = "killed" THEN u ELSE [u EXCEPT !.prompt_needed = 0]

\* the end of an iteration: back to the top of the loop unless it was left
Again3c(st) == IF st.pc = "select" THEN [st EXCEPT !.pc = "top"] ELSE st

\* main after connect_to_server (lines 30-59)
InitHw3c ==
    /\ Hw3Idle
    /\ arg = NoArg
    /\ ret = NoRet
    /\ hw5 = Hw5Idle
    /\ clients = ClientsIdle
    /\ hw5c = Hw5cIdle
    /\ hw3c = [Hw3cIdle EXCEPT !.pc = "top"]
    /\ chat = ChatIdle

\* the server sends a message or closes
ServerSends3c ==
    /\ hw3c.pc \in {"top", "select"}
    /\ hw3c.heard < MaxHeard
    /\ Len(hw3c.inbox) < MaxHeard
    /\ ~PeerGone(hw3c)
    /\ \E in \in ServerSays3c :
          hw3c' = [hw3c EXCEPT !.inbox = Append(@, in), !.heard = @ + 1]
    /\ UNCHANGED <<serverVars, pureVars, hw5, clients, hw5c, chat>>

\* top of the loop (lines 62-79): the prompt, if one is needed
Top3c ==
    /\ hw3c.pc = "top"
    /\ hw3c' = [hw3c EXCEPT
                  !.pc = "select",
                  !.log = IF hw3c.prompt_needed # 0
                          THEN Append(@, [ev |-> "prompt", msg |-> <<>>])
                          ELSE @]
    /\ UNCHANGED <<serverVars, pureVars, hw5, clients, hw5c, chat>>

\* select fails (lines 80-85)
SelectFail3c ==
    /\ hw3c.pc = "select"
    /\ hw3c' = [hw3c EXCEPT !.pc = "done"]
    /\ UNCHANGED <<serverVars, pureVars, hw5, clients, hw5c, chat>>

\* select reports the socket only
SocketOnly3c ==
    /\ hw3c.pc = "select"
    /\ hw3c.inbox # <<>>
    /\ hw3c' = Again3c(Socket3c(hw3c))
    /\ UNCHANGED <<serverVars, pureVars, hw5, clients, hw5c, chat>>

\* select reports the keyboard only
KeyboardOnly3c ==
    /\ hw3c.pc = "select"
    /\ hw3c.typed < MaxTyped
    /\ \E cmd \in Keys3c : hw3c' = Again3c(Keyboard3c(hw3c, cmd))
    /\ UNCHANGED <<serverVars, pureVars, hw5, clients, hw5c, chat>>

\* select reports both: the socket block runs first
SocketAndKeyboard3c ==
    /\ hw3c.pc = "select"
    /\ hw3c.typed < MaxTyped
    /\ hw3c.inbox # <<>>
    /\ \E cmd \in Keys3c :
          LET u == Socket3c(hw3c)
          IN  hw3c' = IF u.pc = "select" THEN Again3c(Keyboard3c(u, cmd)) ELSE u
    /\ UNCHANGED <<serverVars, pureVars, hw5, clients, hw5c, chat>>

\* the keyboard is at its end: fgets fails (lines 134-138), after the socket
\* block if the socket was reported too
KeyboardEnds3c ==
    /\ hw3c.pc = "select"
    /\ \E both \in {FALSE, TRUE} :
          /\ both => hw3c.inbox # <<>>
          /\ LET u == IF both THEN Socket3c(hw3c) ELSE hw3c
             IN  hw3c' = [u EXCEPT !.pc = "done"]
    /\ UNCHANGED <<serverVars, pureVars, hw5, clients, hw5c, chat>>

NextHw3c ==
    \/ ServerSends3c
    \/ Top3c
    \/ SelectFail3c
    \/ SocketOnly3c
    \/ KeyboardOnly3c
    \/ SocketAndKeyboard3c
    \/ KeyboardEnds3c

Hw3cSpec == InitHw3c /\ [][NextHw3c]_vars

----------------------------------------------------------------------------
(* C36 *)

IsPrompt(e) == e.ev = "prompt"

\* the user has submitted a move or a reset
IsSubmit(e) ==
    /\ e.ev = "send"
    /\ \/ strncmp(e.msg, STR_MOVE, 5) = 0
       \/ strncmp(e.msg, STR_RESET, 5) = 0

\* a RESULT or a RESET of the server, as the client recognises them
IsRoundEnd(e) ==
    /\ e.ev = "recv"
    /\ strncmp(e.msg, STR_QUIT, 4) # 0
    /\ \/ strncmp(e.msg, STR_RESET, 5) = 0
       \/ strncmp(e.msg, STR_RESULT, 7) = 0

\* in log, a RESULT or RESET of the server lies between a move or reset of the
\* user and any later prompt
NoPromptWhileWaiting(log) ==
    \A a \in 1..Len(log) : \A b \in (a + 1)..Len(log) :
        (IsSubmit(log[a]) /\ IsPrompt(log[b]))
            => \E c \in (a + 1)..(b - 1) : IsRoundEnd(log[c])

\* what the client sends is QUIT, RESET or MOVE: followed by the character
\* typed
SendsAreCommands(log) ==
    \A a \in 1..Len(log) :
        IsSend(log[a]) =>
            \/ log[a].msg \in {STR_QUIT, STR_RESET}
            \/ /\ Len(log[a].msg) = 6
               /\ strncmp(log[a].msg, STR_MOVE, 5) = 0
               /\ log[a].msg[6] \notin {"Q", "q", "T", "t", "M", "m"}

\* C36: once the user of the hw3 client has submitted a move (any character
\* other than Q, T or M) or a reset, the client prints no prompt until it has
\* read a RESULT or a RESET of the server; a prompt is printed only at the top
\* of an iteration that finds prompt_needed set.
C36_NoPromptUntilRoundEnds ==
    /\ NoPromptWhileWaiting(hw3c.log)
    /\ SendsAreCommands(hw3c.log)
    /\ (hw3c.pc = "select" /\ hw3c.prompt_needed = 0 /\ hw3c.log # <<>>)
          => ~IsPrompt(hw3c.log[Len(hw3c.log)])

\* the user has sent an invalid letter as a move, another server message has
\* been read without a prompt, and the prompt came back after the RESULT
C36_Witness ==
    /\ Len(hw3c.log) = 5
    /\ IsPrompt(hw3c.log[1])
    /\ hw3c.log[2] = [ev |-> "send", msg |-> STR_MOVE \o <<"x">>]
    /\ hw3c.log[3].ev = "recv" /\ ~IsRoundEnd(hw3c.log[3])
    /\ hw3c.log[4].ev = "recv" /\ strncmp(hw3c.log[4].msg, STR_RESULT, 7) = 0
    /\ IsPrompt(hw3c.log[5])

----------------------------------------------------------------------------
(* The two-peer chat: src/hw1/server.c and src/hw1/client.c.  chat holds the
   position of each peer (s, c), the buffer and the last recv() of each, and
   the messages in flight in each direction.  One recv returns one message.
   A peer that has left its loop, exited or been killed has closed its end. *)

\* the two users type at most MaxLines lines in all
MaxLines == 3

\* sizeof(struct sockaddr_in): the value of len in every send of the client
\* (client.c line 110; len is never set to the length of the line)
SIZEOF_ADDRESS == 16

STR_X == <<"x", "\n">>
STR_XX == <<"x", "x", "\n">>
STR_HI == <<"h", "i", "\n">>
STR_LONG == <<"0", "1", "2", "3", "4", "5", "6", "7", "8", "9",
              "a", "b", "c", "d", "e", "f", "g", "\n">>
STR_HELP == <<"h", "e", "l", "p", "\n">>

\* lines typed at the client and at the server
ClientLines == {STR_X, STR_XX, STR_HI, STR_LONG}
ServerLines == {STR_X, STR_XX, STR_HI, STR_HELP}

\* strcmp(s1, s2) == 0
StrEq(s1, s2) == s1 = s2

\* what the server's recv and strcmp see of send(fd, buffer, len, 0): the
\* first len bytes of the buffer, up to the NUL that fgets wrote
ClientWire(line) == SubSeq(line, 1, Min2(Len(line), SIZEOF_ADDRESS))

\* "Server received: %s" (server.c line 184)
Acknowledge(s) ==
    <<"S", "e", "r", "v", "e", "r", " ", "r", "e", "c", "e", "i", "v", "e",
      "d", ":", " ">> \o s

\* "server received: xx\n" and "server received: x\n" (lines 170, 178)
STR_GOT_XX ==
    <<"s", "e", "r", "v", "e", "r", " ", "r", "e", "c", "e", "i", "v", "e",
      "d", ":", " ", "x", "x", "\n">>
STR_GOT_X ==
    <<"s", "e", "r", "v", "e", "r", " ", "r", "e", "c", "e", "i", "v", "e",
      "d", ":", " ", "x", "\n">>

\* "ERROR in file %s: %s" (line 161); the file and the error are not modelled
STR_ERROR == <<"E", "R", "R", "O", "R">>

Left == {"over", "exit1", "killed"}
ServerGone(st) == st.s \in Left
ClientGone(st) == st.c \in Left

\* send_reply (server.c lines 40-52): the message reaches the client; on a
\* connection the client has closed the first send is lost and the next one
\* raises SIGPIPE
send_reply(st, message) ==
    IF ClientGone(st)
    THEN IF st.srst THEN [st EXCEPT !.s = "killed"]
                    ELSE [st EXCEPT !.srst = TRUE]
    ELSE [st EXCEPT !.s2c = Append(@, message)]

\* send(fd, buffer, len, 0) of the client
send_line(st, line) ==
    IF ServerGone(st)
    THEN IF st.crst THEN [st EXCEPT !.c = "killed"]
                    ELSE [st EXCEPT !.crst = TRUE]
    ELSE [st EXCEPT !.c2s = Append(@, ClientWire(line))]

\* st with the server at position to, unless the send killed it
ServerAt(st, to) == IF st.s = "killed" THEN st ELSE [st EXCEPT !.s = to]
ClientAt(st, to) == IF st.c = "killed" THEN st ELSE [st EXCEPT !.c = to]

\* server() and client() once connected (server.c lines 73-74, 140-145;
\* client.c lines 62-63): the client speaks first
InitChat ==
    /\ Hw3Idle
    /\ arg = NoArg
    /\ ret = NoRet
    /\ hw5 = Hw5Idle
    /\ clients = ClientsIdle
    /\ hw5c = Hw5cIdle
    /\ hw3c = Hw3cIdle
    /\ chat = [ChatIdle EXCEPT !.s = "recv", !.c = "send"]

\* the server's receiving loop on a message (server.c lines 153-186)
ServerHandles(st, buf) ==
    CASE StrEq(buf, STR_XX) -> ServerAt(send_reply(st, STR_GOT_XX), "over")
      [] StrEq(buf, STR_X) -> ServerAt(send_reply(st, STR_GOT_X), "send")
      [] OTHER -> send_reply(st, Acknowledge(buf))

ServerReads ==
    /\ chat.s = "recv"
    /\ chat.c2s # <<>>
    /\ LET buf == Head(chat.c2s)
       IN  chat' = ServerHandles([chat EXCEPT !.c2s = Tail(@), !.sbuf = buf,
                                              !.sn = Len(buf)], buf)
    /\ UNCHANGED <<serverVars, pureVars, hw5, clients, hw5c, hw3c>>

\* recv returns 0 once the client has closed: the empty string is handled as
\* a normal message (lines 165, 182-185)
ServerReadsEOF ==
    /\ chat.s = "recv"
    /\ chat.c2s = <<>>
    /\ ClientGone(chat)
    /\ chat' = ServerHandles([chat EXCEPT !.sbuf = <<>>, !.sn = 0], <<>>)
    /\ UNCHANGED <<serverVars, pureVars, hw5, clients, hw5c, hw3c>>

\* recv fails (lines 157-164): the error is sent to the client, exit(1)
ServerRecvFails ==
    /\ chat.s = "recv"
    /\ chat' = ServerAt(send_reply([chat EXCEPT !.sn = -1], STR_ERROR), "exit1")
    /\ UNCHANGED <<serverVars, pureVars, hw5, clients, hw5c, hw3c>>

\* the server's sending loop on a line of its user (lines 196-239); help and
\* clear are local commands.  At the end of its keyboard the server stays in
\* this loop for ever (lines 198-202).
ServerTypes ==
    /\ chat.s = "send"
    /\ chat.lines < MaxLines
    /\ \E line \in ServerLines :
          LET st == [chat EXCEPT !.lines = @ + 1, !.sbuf = line]
          IN  chat' =
                CASE StrEq(line, STR_HELP) -> st
                  [] StrEq(line, STR_XX) -> ServerAt(send_reply(st, line), "over")
                  [] StrEq(line, STR_X) -> ServerAt(send_reply(st, line), "recv")
                  [] OTHER -> send_reply(st, line)
    /\ UNCHANGED <<serverVars, pureVars, hw5, clients, hw5c, hw3c>>

\* the client's write mode on a line of its user (client.c lines 129-163)
ClientTypes ==
    /\ chat.c = "send"
    /\ chat.lines < MaxLines
    /\ \E line \in ClientLines :
          LET st == [chat EXCEPT !.lines = @ + 1, !.cbuf = line]
          IN  chat' =
                CASE StrEq(line, STR_XX) -> ClientAt(send_line(st, line), "over")
                  [] StrEq(line, STR_X) -> ClientAt(send_line(st, line), "recv")
                  [] OTHER -> send_line(st, line)
    /\ UNCHANGED <<serverVars, pureVars, hw5, clients, hw5c, hw3c>>

\* the client's keyboard is at its end: fgets returns NULL, the writing loop
\* ends and the client switches to read mode (lines 129, 165-170)
ClientStdinEnds ==
    /\ chat.c = "send"
    /\ chat' = [chat EXCEPT !.c = "recv"]
    /\ UNCHANGED <<serverVars, pureVars, hw5, clients, hw5c, hw3c>>

\* ClientReads taking xx for a normal message
ClientReads_ignores_xx ==
    /\ chat.c = "recv"
    /\ chat.s2c # <<>>
    /\ LET buf == Head(chat.s2c)
           st == [chat EXCEPT !.s2c = Tail(@), !.cbuf = buf, !.cn = Len(buf)]
       IN  chat' = CASE StrEq(buf, STR_X) -> [st EXCEPT !.c = "send"]
                     [] OTHER -> st
    /\ UNCHANGED <<serverVars, pureVars, hw5, clients, hw5c, hw3c>>

\* the client's read mode on a message (lines 177-212)
ClientReads ==
    /\ chat.c = "recv"
    /\ chat.s2c # <<>>
    /\ LET buf == Head(chat.s2c)
           st == [chat EXCEPT !.s2c = Tail(@), !.cbuf = buf, !.cn = Len(buf)]
       IN  chat' = CASE StrEq(buf, STR_XX) -> [st EXCEPT !.c = "over"]
                     [] StrEq(buf, STR_X) -> [st EXCEPT !.c = "send"]
                     [] OTHER -> st
    /\ UNCHANGED <<serverVars, pureVars, hw5, clients, hw5c, hw3c>>

\* recv returns 0 once the server has closed: the reading loop ends, n is not
\* negative and chat_over is 0, so my_turn becomes 1 (lines 177, 198-212)
ClientReadsEOF ==
    /\ chat.c = "recv"
    /\ chat.s2c = <<>>
    /\ ServerGone(chat)
    /\ chat' = [chat EXCEPT !.cn = 0, !.c = "send"]
    /\ UNCHANGED <<serverVars, pureVars, hw5, clients, hw5c, hw3c>>

\* recv fails at the client (lines 198-203): exit(1)
ClientRecvFails ==
    /\ chat.c = "recv"
    /\ chat' = [chat EXCEPT !.cn = -1, !.c = "exit1"]
    /\ UNCHANGED <<serverVars, pureVars, hw5, clients, hw5c, hw3c>>

\* the steps each process takes without its user
ChatServerStep == ServerReads \/ ServerReadsEOF
ChatClientStep == ClientReads \/ ClientReadsEOF

ChatNext ==
    \/ ServerReads
    \/ ServerReadsEOF
    \/ ServerRecvFails
    \/ ServerTypes
    \/ ClientTypes
    \/ ClientStdinEnds
    \/ ClientReads
    \/ ClientReadsEOF
    \/ ClientRecvFails

ChatSpec == InitChat /\ [][ChatNext]_vars

\* each process runs: a recv that can return does return
FairChatSpec ==
    InitChat /\ [][ChatNext]_vars
        /\ WF_vars(ChatServerStep) /\ WF_vars(ChatClientStep)

----------------------------------------------------------------------------
(* C37 *)

\* the server enters its sending turn in this step
ServerTakesTurn == chat.s # "send" /\ chat'.s = "send"

\* the client returns to its sending turn in this step
ClientTakesTurn == chat.c # "send" /\ chat'.c = "send"

\* the peer has just read the end-of-turn message of the other
ServerGotX == chat'.sn > 0 /\ chat'.sbuf = STR_X /\ chat'.c2s = Tail(chat.c2s)
ClientGotX == chat'.cn > 0 /\ chat'.cbuf = STR_X /\ chat'.s2c = Tail(chat.s2c)

BothSending == chat.s = "send" /\ chat.c = "send"

C37_ServerTurnOnlyAfterX == [][ServerTakesTurn => ServerGotX]_vars
C37_ClientTurnOnlyAfterX == [][ClientTakesTurn => ClientGotX]_vars
C37_NeverBothSending == ~BothSending

\* C37: in the hw1 chat the client speaks first, the server enters its sending
\* turn only by reading the client's x, the client returns to sending only by
\* reading the server's x, and the two are never both in their sending turn.
C37_TurnsStrictlyAlternate ==
    /\ chat.s = "recv" /\ chat.c = "send"
    /\ [][ServerTakesTurn => ServerGotX]_vars
    /\ [][ClientTakesTurn => ClientGotX]_vars
    /\ []~BothSending

----------------------------------------------------------------------------
(* C38 *)

\* the xx of a peer is on its way to the other
XXFromClient == \E k \in 1..Len(chat.c2s) : chat.c2s[k] = STR_XX
XXFromServer == \E k \in 1..Len(chat.s2c) : chat.s2c[k] = STR_XX

\* the step in which a peer reads xx
ServerReadsXX ==
    /\ chat.s = "recv" /\ chat.c2s # <<>> /\ Head(chat.c2s) = STR_XX
    /\ chat'.c2s = Tail(chat.c2s)
ClientReadsXX ==
    /\ chat.c = "recv" /\ chat.s2c # <<>> /\ Head(chat.s2c) = STR_XX
    /\ chat'.s2c = Tail(chat.s2c)

\* the step in which a peer sends xx
ClientSendsXX == ~XXFromClient /\ XXFromClient'
ServerSendsXX == ~XXFromServer /\ XXFromServer'

\* a peer that has left sends nothing and reads nothing
ClientStaysOut ==
    ClientGone(chat) => /\ chat'.c = chat.c
                        /\ chat'.c2s = chat.c2s \/ chat'.c2s = Tail(chat.c2s)
                        /\ chat'.cn = chat.cn
ServerStaysOut ==
    ServerGone(chat) => /\ chat'.s = chat.s
                        /\ chat'.s2c = chat.s2c \/ chat'.s2c = Tail(chat.s2c)
                        /\ chat'.sn = chat.sn

\* C38: in the hw1 chat an xx sent by a peer in its own turn ends the chat on
\* both sides: the sender has left its loop in the step that sends it, the
\* receiver leaves its loop in the step that reads it, the receiver does come
\* to leave, and a peer that has left sends and reads no further message.
C38_XXEndsTheChat ==
    /\ [][/\ ClientSendsXX => (chat.c = "send" /\ chat'.c = "over")
          /\ ServerSendsXX => (chat.s = "send" /\ chat'.s = "over")
          /\ ServerReadsXX => ServerGone(chat')
          /\ ClientReadsXX => ClientGone(chat')
          /\ ClientStaysOut
          /\ ServerStaysOut]_vars
    /\ XXFromClient ~> ServerGone(chat)
    /\ XXFromServer ~> ClientGone(chat)

\* the server has sent xx in its turn and the client has read it: both have
\* left their loops
C38_Witness ==
    /\ chat.s = "over"
    /\ chat.c = "over"
    /\ chat.cbuf = STR_XX
    /\ chat.cn = 3
    /\ chat.sbuf = STR_XX
    /\ chat.s2c = <<>>

=============================================================================
